---- MODULE Spec2Model ----
(***************************************************************************)
(* A model of the gota DataFrame / Series code.                           *)
(*                                                                         *)
(* State: the last operation, its receiver, its arguments and its result. *)
(* Sequences are 1-based here; every position that the Go code passes     *)
(* around (indexes, permutations, column numbers) keeps its 0-based       *)
(* value and is shifted only where a sequence is read.                    *)
(***************************************************************************)
EXTENDS Integers, Sequences, FiniteSets, TLC

VARIABLES op, recv, arg, res

vars == <<op, recv, arg, res>>

(***************************************************************************)
(* Bounds of the model.                                                    *)
(***************************************************************************)
MaxCols == 2
MaxRows == 2
MaxVal == 1

\* The nil error.
NoErr == ""
\* The value of arg, recv or res when the operation has none.
None == "none"

Min(S) == CHOOSE x \in S : \A y \in S : x <= y
Range(f) == {f[i] : i \in DOMAIN f}
SeqsUpTo(S, n) == UNION {[1..k -> S] : k \in 0..n}

(***************************************************************************)
(* series: Element                                                         *)
(***************************************************************************)
NewElement(t) == [value |-> t, nan |-> FALSE]

\* The element that Append(nil) and series.New(make([]struct{}, n), ...) store:
\* the zero value with the missing flag set.
NaNElement == [value |-> 0, nan |-> TRUE]

IsNA(e) == e.nan

ElementValueEq(ev, other) == ev.nan = other.nan /\ ev.value = other.value

ElementValueNeq(ev, other) == ev.nan # other.nan \/ ev.value # other.value

\* BoolElementValue.Eq and Neq compare the values alone.
BoolElementValueEq(b, be) == b.value = be.value

BoolElementValueNeq(b, be) == b.value # be.value

ElementValueLess(ev, other) == ev.value < other.value

\* ElementValue.Set stores the value and leaves the missing flag as it is.
ElementValueSet(ev, item) == [ev EXCEPT !.value = item]

(***************************************************************************)
(* series: GotaSeries                                                      *)
(***************************************************************************)
Series(name, elements, err) == [Name |-> name, elements |-> elements, Err |-> err]

\* NewSeries / NewElements: one present element per value.
NewSeries(name, values) ==
    Series(name, [i \in 1..Len(values) |-> NewElement(values[i])], NoErr)

SeriesLen(s) == Len(s.elements)

\* Elem(i) for a 0-based i.
Elem(s, i) == s.elements[i + 1]

SeriesEmpty(s) == NewSeries(s.Name, <<>>)

\* Copy keeps the name, the elements (missing flags included) and the error.
SeriesCopy(s) == Series(s.Name, s.elements, s.Err)

\* Indexes: a position list, one position, or a boolean mask.
IntsIdx(v) == [kind |-> "ints", v |-> v]
IntIdx(v) == [kind |-> "int", v |-> v]
BoolsIdx(v) == [kind |-> "bools", v |-> v]

\* parseIndexes(l, indexes): the 0-based positions, or an error. Positions
\* are not checked against l.
parseIndexes(l, indexes) ==
    CASE indexes.kind = "ints" -> [idx |-> indexes.v, err |-> NoErr]
      [] indexes.kind = "int" -> [idx |-> <<indexes.v>>, err |-> NoErr]
      [] indexes.kind = "bools" ->
            IF Len(indexes.v) # l
            THEN [idx |-> <<>>, err |-> "indexing error: index dimensions mismatch"]
            ELSE [idx |-> SelectSeq([i \in 1..l |-> i - 1],
                                    LAMBDA i : indexes.v[i + 1]),
                  err |-> NoErr]
      [] OTHER -> [idx |-> <<>>, err |-> "indexing error: unknown indexing mode"]

\* Subset reads an element out of range: the Go runtime panics.
SeriesSubsetPanics(s, indexes) ==
    LET p == parseIndexes(SeriesLen(s), indexes)
    IN /\ s.Err = NoErr
       /\ p.err = NoErr
       /\ \E k \in 1..Len(p.idx) : p.idx[k] < 0 \/ p.idx[k] >= SeriesLen(s)

\* Subset as it would be if the new elements kept the missing flag.
SeriesSubsetKeepingNaN(s, indexes) ==
    LET p == parseIndexes(SeriesLen(s), indexes)
    IN IF s.Err # NoErr THEN s
       ELSE IF p.err # NoErr THEN [s EXCEPT !.Err = p.err]
       ELSE Series(s.Name, [k \in 1..Len(p.idx) |-> Elem(s, p.idx[k])], NoErr)

\* GotaSeries.Subset. The new Series is built by NewElements from the values
\* alone, so every element of it is present. A selector that does not parse
\* sets the receiver's error and returns the receiver.
SeriesSubset(s, indexes) ==
    LET p == parseIndexes(SeriesLen(s), indexes)
    IN IF s.Err # NoErr THEN s
       ELSE IF p.err # NoErr THEN [s EXCEPT !.Err = p.err]
       ELSE NewSeries(s.Name, [k \in 1..Len(p.idx) |-> Elem(s, p.idx[k]).value])

\* GotaSeries.Slice.
Slice(s, j, k) ==
    IF s.Err # NoErr THEN s
    ELSE IF j > k \/ j < 0 \/ k >= SeriesLen(s)
    THEN [SeriesEmpty(s) EXCEPT !.Err = "slice index out of bounds"]
    ELSE SeriesSubset(s, IntsIdx([i \in 1..(k - j) |-> j + i - 1]))

\* The receiver after GotaSeries.Subset: a selector that does not parse
\* stores its error in the receiver.
SeriesSubsetReceiver(s, indexes) ==
    LET p == parseIndexes(SeriesLen(s), indexes)
    IN IF s.Err = NoErr /\ p.err # NoErr THEN [s EXCEPT !.Err = p.err] ELSE s

\* indexedElements.Less: the elements' own Less.
indexedElementsLess(a, b) == ElementValueLess(a.element, b.element)

\* sort.Reverse swaps the arguments of Less.
srtLess(a, b, reverse) ==
    IF reverse THEN indexedElementsLess(b, a) ELSE indexedElementsLess(a, b)

\* sort.Stable: each element, in input order, goes right before the first
\* sorted element it is less than.
RECURSIVE sortStable(_, _)
sortStable(ie, reverse) ==
    IF ie = <<>> THEN <<>>
    ELSE LET sorted == sortStable(SubSeq(ie, 1, Len(ie) - 1), reverse)
             x == ie[Len(ie)]
             after == {p \in 1..Len(sorted) : srtLess(x, sorted[p], reverse)}
             k == IF after = {} THEN Len(sorted) ELSE Min(after) - 1
         IN SubSeq(sorted, 1, k) \o <<x>> \o SubSeq(sorted, k + 1, Len(sorted))

\* Order with the direction ignored.
SeriesOrderAscendingOnly(s, reverse) ==
    LET at == [i \in 1..SeriesLen(s) |-> i - 1]
        ie == SelectSeq(at, LAMBDA i : ~IsNA(Elem(s, i)))
        sorted == sortStable([k \in 1..Len(ie) |->
                                 [index |-> ie[k], element |-> Elem(s, ie[k])]],
                             FALSE)
    IN [k \in 1..Len(sorted) |-> sorted[k].index]
       \o SelectSeq(at, LAMBDA i : IsNA(Elem(s, i)))

\* GotaSeries.Order: the positions of the present elements, stably sorted,
\* then the positions of the missing elements in order of appearance.
SeriesOrder(s, reverse) ==
    LET at == [i \in 1..SeriesLen(s) |-> i - 1]
        ie == SelectSeq(at, LAMBDA i : ~IsNA(Elem(s, i)))
        nasIdx == SelectSeq(at, LAMBDA i : IsNA(Elem(s, i)))
        sorted == sortStable([k \in 1..Len(ie) |->
                                 [index |-> ie[k], element |-> Elem(s, ie[k])]],
                             reverse)
    IN [k \in 1..Len(sorted) |-> sorted[k].index] \o nasIdx

(***************************************************************************)
(* dataframe: helpers                                                      *)
(***************************************************************************)
\* The 0-based position of the first e = str in s, or -1.
findInStringSlice(str, s) ==
    IF \E i \in 1..Len(s) : s[i] = str
    THEN Min({i \in 1..Len(s) : s[i] = str}) - 1
    ELSE -1

inIntSlice(i, is) == \E k \in 1..Len(is) : is[k] = i

\* The counter of the first name prefix<counter> that colnames does not hold.
RECURSIVE FreeCounter(_, _, _)
FreeCounter(prefix, counter, colnames) ==
    IF findInStringSlice(prefix \o ToString(counter), colnames) # -1
    THEN FreeCounter(prefix, counter + 1, colnames)
    ELSE counter

\* Rename the positions idx (1-based, in order) of colnames to prefix<n>.
RECURSIVE RenameAll(_, _, _, _)
RenameAll(colnames, prefix, idx, counter) ==
    IF idx = <<>> THEN colnames
    ELSE LET c == FreeCounter(prefix, counter, colnames)
         IN RenameAll([colnames EXCEPT ![Head(idx)] = prefix \o ToString(c)],
                      prefix, Tail(idx), c + 1)

Positions(colnames, name) ==
    SelectSeq([i \in 1..Len(colnames) |-> i], LAMBDA i : colnames[i] = name)

\* The names that occur twice or more, in order of first occurrence.
DupNames(colnames) ==
    LET first(i) == \A j \in 1..(i - 1) : colnames[j] # colnames[i]
        dup(i) == \E j \in 1..Len(colnames) : j # i /\ colnames[j] = colnames[i]
        at == SelectSeq([i \in 1..Len(colnames) |-> i],
                        LAMBDA i : colnames[i] # "" /\ first(i) /\ dup(i))
    IN [k \in 1..Len(at) |-> colnames[at[k]]]

RECURSIVE FixDups(_, _)
FixDups(colnames, names) ==
    IF names = <<>> THEN colnames
    ELSE FixDups(RenameAll(colnames, Head(names) \o "_",
                           Positions(colnames, Head(names)), 0),
                 Tail(names))

\* fixColnames: empty names become X<n>, then every name that occurs more
\* than once gets the suffix _<n> at each of its occurrences.
fixColnames(colnames) ==
    LET filled == RenameAll(colnames, "X", Positions(colnames, ""), 0)
    IN FixDups(filled, DupNames(colnames))

(***************************************************************************)
(* dataframe: GotaDataFrame                                                *)
(***************************************************************************)
DataFrame(columns, ncols, nrows) ==
    [columns |-> columns, ncols |-> ncols, nrows |-> nrows, Err |-> NoErr]

\* GotaDataFrame{Err: err}
ErrDF(err) == [columns |-> <<>>, ncols |-> 0, nrows |-> 0, Err |-> err]

Names(df) == [i \in 1..Len(df.columns) |-> df.columns[i].Name]

checkColumnsDimensionsNoLenCheck(se) ==
    [nrows |-> IF Len(se) = 0 THEN -1 ELSE SeriesLen(se[1]),
     ncols |-> Len(se),
     err |-> IF Len(se) = 0 THEN "no Series given" ELSE NoErr]

checkColumnsDimensions(se) ==
    IF Len(se) = 0
    THEN [nrows |-> -1, ncols |-> 0, err |-> "no Series given"]
    ELSE LET n0 == SeriesLen(se[1])
             bad == {i \in 1..Len(se) : se[i].Err # NoErr \/ SeriesLen(se[i]) # n0}
             out(e) == [nrows |-> n0, ncols |-> Len(se), err |-> e]
         IN IF bad = {} THEN out(NoErr)
            ELSE IF se[Min(bad)].Err # NoErr
            THEN out("error on series " \o ToString(Min(bad) - 1) \o ": "
                     \o se[Min(bad)].Err)
            ELSE out("arguments have different dimensions")

\* The tail shared by New, Select, Drop, Mutate and RApply: the dimensions
\* are checked, the names fixed.
Compose(columns) ==
    LET d == checkColumnsDimensions(columns)
        colnames == fixColnames([i \in 1..Len(columns) |-> columns[i].Name])
    IN IF d.err # NoErr THEN ErrDF(d.err)
       ELSE DataFrame([i \in 1..Len(columns) |->
                          [columns[i] EXCEPT !.Name = colnames[i]]],
                      d.ncols, d.nrows)

NewNoEmptyCheck(se) == Compose([i \in 1..Len(se) |-> SeriesCopy(se[i])])

New(se) ==
    IF Len(se) = 0 THEN ErrDF("empty DataFrame")
    ELSE Compose([i \in 1..Len(se) |-> SeriesCopy(se[i])])

ColIndex(df, s) == findInStringSlice(s, Names(df))

SubsetPanics(df, indexes) ==
    /\ df.Err = NoErr
    /\ \E i \in 1..Len(df.columns) : SeriesSubsetPanics(df.columns[i], indexes)

\* GotaDataFrame.Subset: every column subset by the same indexes.
Subset(df, indexes) ==
    IF df.Err # NoErr THEN df
    ELSE LET columns == [i \in 1..Len(df.columns) |->
                            SeriesSubset(df.columns[i], indexes)]
             d == checkColumnsDimensions(columns)
         IN IF d.err # NoErr THEN ErrDF(d.err)
            ELSE DataFrame(columns, d.ncols, d.nrows)

\* Order keys.
OrderKey(colname, reverse) == [Colname |-> colname, Reverse |-> reverse]

\* The loop of Arrange from key i (1-based) down to the first key: st holds
\* origIdx, the running permutation, and suborder, the last Order result.
\* With running = TRUE the column is subset by origIdx instead of suborder.
RECURSIVE ArrangeLoop(_, _, _, _, _)
ArrangeLoop(df, order, i, st, running) ==
    IF i = 0 THEN st.origIdx
    ELSE LET idx == ColIndex(df, order[i].Colname)
             view == IF running THEN st.origIdx ELSE st.suborder
             nextSeries == SeriesSubset(df.columns[idx + 1], IntsIdx(view))
             suborder == SeriesOrder(nextSeries, order[i].Reverse)
             newOrigIdx == [k \in 1..Len(suborder) |-> st.origIdx[suborder[k] + 1]]
         IN ArrangeLoop(df, order, i - 1,
                        [origIdx |-> newOrigIdx, suborder |-> suborder], running)

\* GotaDataFrame.Arrange.
Arrange(df, order) ==
    IF df.Err # NoErr THEN df
    ELSE IF Len(order) = 0 THEN ErrDF("rename: no arguments")
    ELSE IF \E i \in 1..Len(order) : ColIndex(df, order[i].Colname) = -1
    THEN LET i == Min({j \in 1..Len(order) : ColIndex(df, order[j].Colname) = -1})
         IN ErrDF("colname " \o order[i].Colname \o " doesn't exist")
    ELSE LET id == [k \in 1..df.nrows |-> k - 1]
         IN Subset(df, IntsIdx(ArrangeLoop(df, order, Len(order),
                                           [origIdx |-> id, suborder |-> id],
                                           FALSE)))

\* Append on a Series: no-op on an errored Series, else the elements follow
\* the ones it holds. Append(nil) appends a missing element.
SeriesAppend(s, elems) ==
    IF s.Err # NoErr THEN s ELSE [s EXCEPT !.elements = @ \o elems]

\* fmt's %q of a key.
Quote(s) == "\"" \o s \o "\""

RECURSIVE JoinStrings(_, _)
JoinStrings(strs, sep) ==
    IF Len(strs) = 0 THEN ""
    ELSE IF Len(strs) = 1 THEN strs[1]
    ELSE strs[1] \o sep \o JoinStrings(Tail(strs), sep)

\* The key check with the first message only.
joinKeyErrorsFirstOnly(df, b, keys) ==
    LET sides == [p \in 1..(2 * Len(keys)) |->
                     [key |-> keys[(p + 1) \div 2],
                      left |-> p % 2 = 1]]
        absent == SelectSeq(sides, LAMBDA s : ColIndex(IF s.left THEN df ELSE b, s.key) < 0)
    IN [p \in 1..Min({1, Len(absent)}) |->
           "can't find key " \o Quote(absent[p].key) \o " on "
               \o (IF absent[p].left THEN "left" ELSE "right") \o " DataFrame"]

\* The key check that opens InnerJoin, LeftJoin, RightJoin and OuterJoin: one
\* message per absent (key, side), in key order, left before right.
RECURSIVE joinKeyErrors(_, _, _)
joinKeyErrors(df, b, keys) ==
    IF keys = <<>> THEN <<>>
    ELSE (IF ColIndex(df, Head(keys)) < 0
          THEN <<"can't find key " \o Quote(Head(keys)) \o " on left DataFrame">>
          ELSE <<>>)
         \o (IF ColIndex(b, Head(keys)) < 0
             THEN <<"can't find key " \o Quote(Head(keys)) \o " on right DataFrame">>
             ELSE <<>>)
         \o joinKeyErrors(df, b, Tail(keys))

\* The columns of a join: the key positions on both sides (0-based), then
\* the positions of the other columns of each side, in column order.
joinColumns(df, b, keys) ==
    LET iKeysA == [k \in 1..Len(keys) |-> ColIndex(df, keys[k])]
        iKeysB == [k \in 1..Len(keys) |-> ColIndex(b, keys[k])]
    IN [iKeysA |-> iKeysA,
        iKeysB |-> iKeysB,
        iNotKeysA |-> SelectSeq([i \in 1..df.ncols |-> i - 1],
                                LAMBDA i : ~inIntSlice(i, iKeysA)),
        iNotKeysB |-> SelectSeq([i \in 1..b.ncols |-> i - 1],
                                LAMBDA i : ~inIntSlice(i, iKeysB))]

\* newCols as initialised: the Empty() of every output column.
joinNewCols(df, b, jc) ==
    [k \in 1..Len(jc.iKeysA) |-> SeriesEmpty(df.columns[jc.iKeysA[k] + 1])]
    \o [k \in 1..Len(jc.iNotKeysA) |-> SeriesEmpty(df.columns[jc.iNotKeysA[k] + 1])]
    \o [k \in 1..Len(jc.iNotKeysB) |-> SeriesEmpty(b.columns[jc.iNotKeysB[k] + 1])]

\* A match with only the first key compared.
joinMatchFirstKeyOnly(df, b, jc, i, j) ==
    ElementValueEq(Elem(df.columns[jc.iKeysA[1] + 1], i),
                   Elem(b.columns[jc.iKeysB[1] + 1], j))

\* Rows i of df and j of b (0-based) are equal on every key.
joinMatch(df, b, jc, i, j) ==
    \A k \in 1..Len(jc.iKeysA) :
        ElementValueEq(Elem(df.columns[jc.iKeysA[k] + 1], i),
                       Elem(b.columns[jc.iKeysB[k] + 1], j))

\* The elements appended for a matching pair: the keys and the other
\* columns of left row i, then the other columns of right row j.
joinMatchedRow(df, b, jc, i, j) ==
    [k \in 1..Len(jc.iKeysA) |-> Elem(df.columns[jc.iKeysA[k] + 1], i)]
    \o [k \in 1..Len(jc.iNotKeysA) |-> Elem(df.columns[jc.iNotKeysA[k] + 1], i)]
    \o [k \in 1..Len(jc.iNotKeysB) |-> Elem(b.columns[jc.iNotKeysB[k] + 1], j)]

\* The elements appended for a left row without a match: Append(nil) on
\* every right non-key column.
joinLeftOnlyRow(df, b, jc, i) ==
    [k \in 1..Len(jc.iKeysA) |-> Elem(df.columns[jc.iKeysA[k] + 1], i)]
    \o [k \in 1..Len(jc.iNotKeysA) |-> Elem(df.columns[jc.iNotKeysA[k] + 1], i)]
    \o [k \in 1..Len(jc.iNotKeysB) |-> NaNElement]

\* The rows appended while j runs from j to the last row of b, for left row i.
RECURSIVE joinInnerLoop(_, _, _, _, _)
joinInnerLoop(df, b, jc, i, j) ==
    IF j >= b.nrows THEN <<>>
    ELSE (IF joinMatch(df, b, jc, i, j)
          THEN <<joinMatchedRow(df, b, jc, i, j)>> ELSE <<>>)
         \o joinInnerLoop(df, b, jc, i, j + 1)

\* The filled newCols handed to New: column c holds the c-th element of
\* every appended row.
joinResult(df, b, jc, rows) ==
    LET newCols == joinNewCols(df, b, jc)
    IN New([c \in 1..Len(newCols) |->
               SeriesAppend(newCols[c], [r \in 1..Len(rows) |-> rows[r][c]])])

joinPrecheck(df, b, keys) ==
    IF Len(keys) = 0 THEN "join keys not specified"
    ELSE JoinStrings(joinKeyErrors(df, b, keys), "\n")

RECURSIVE InnerJoinRows(_, _, _, _)
InnerJoinRows(df, b, jc, i) ==
    IF i >= df.nrows THEN <<>>
    ELSE joinInnerLoop(df, b, jc, i, 0) \o InnerJoinRows(df, b, jc, i + 1)

\* GotaDataFrame.InnerJoin.
InnerJoin(df, b, keys) ==
    IF joinPrecheck(df, b, keys) # NoErr THEN ErrDF(joinPrecheck(df, b, keys))
    ELSE LET jc == joinColumns(df, b, keys)
         IN joinResult(df, b, jc, InnerJoinRows(df, b, jc, 0))

\* LeftJoin's loop without the rows for the left rows that match nothing.
LeftJoinRowsMatchedOnly(df, b, jc, i) == InnerJoinRows(df, b, jc, i)

\* LeftJoin's loop with the padded row appended for every left row, matched
\* or not.
LeftJoinRowsPaddingAll(df, b, jc, i) ==
    InnerJoinRows(df, b, jc, i)
    \o [r \in 1..(df.nrows - i) |-> joinLeftOnlyRow(df, b, jc, i + r - 1)]

RECURSIVE LeftJoinRows(_, _, _, _)
LeftJoinRows(df, b, jc, i) ==
    IF i >= df.nrows THEN <<>>
    ELSE LET matched == joinInnerLoop(df, b, jc, i, 0)
         IN (IF matched = <<>> THEN <<joinLeftOnlyRow(df, b, jc, i)>> ELSE matched)
            \o LeftJoinRows(df, b, jc, i + 1)

\* GotaDataFrame.LeftJoin.
LeftJoin(df, b, keys) ==
    IF joinPrecheck(df, b, keys) # NoErr THEN ErrDF(joinPrecheck(df, b, keys))
    ELSE LET jc == joinColumns(df, b, keys)
         IN joinResult(df, b, jc, LeftJoinRows(df, b, jc, 0))

(***************************************************************************)
(* dataframe: the other Table operations                                   *)
(***************************************************************************)
\* GotaDataFrame.Copy: New on the columns, the receiver's error kept.
Copy(df) ==
    LET copy == New(df.columns)
    IN IF df.Err # NoErr THEN [copy EXCEPT !.Err = df.Err] ELSE copy

\* The loop of GotaSeries.Set from position k (1-based) of idx: the element
\* at idx[k] takes the k-th value; a position out of range stops the loop.
RECURSIVE SeriesSetLoop(_, _, _, _)
SeriesSetLoop(s, idx, newvalues, k) ==
    IF k > Len(idx) THEN s
    ELSE IF idx[k] < 0 \/ idx[k] >= SeriesLen(s)
    THEN [s EXCEPT !.Err = "set error: index out of range"]
    ELSE SeriesSetLoop(
             [s EXCEPT !.elements[idx[k] + 1] =
                           ElementValueSet(@, Elem(newvalues, k - 1).value)],
             idx, newvalues, k + 1)

\* GotaSeries.Set: the receiver, modified.
SeriesSet(s, indexes, newvalues) ==
    LET p == parseIndexes(SeriesLen(s), indexes)
    IN IF s.Err # NoErr THEN s
       ELSE IF newvalues.Err # NoErr
       THEN [s EXCEPT !.Err = "set error: argument has errors: " \o newvalues.Err]
       ELSE IF p.err # NoErr THEN [s EXCEPT !.Err = p.err]
       ELSE IF Len(p.idx) # SeriesLen(newvalues)
       THEN [s EXCEPT !.Err = "set error: dimensions mismatch"]
       ELSE SeriesSetLoop(s, p.idx, newvalues, 1)

\* GotaDataFrame.Set: every column set from the aligned column of newvalues;
\* the first column that fails gives the error.
Set(df, indexes, newvalues) ==
    IF df.Err # NoErr THEN df
    ELSE IF newvalues.Err # NoErr
    THEN ErrDF("argument has errors: " \o newvalues.Err)
    ELSE IF df.ncols # newvalues.ncols THEN ErrDF("different number of columns")
    ELSE LET columns == [i \in 1..Len(df.columns) |->
                            SeriesSet(df.columns[i], indexes, newvalues.columns[i])]
             bad == {i \in 1..Len(columns) : columns[i].Err # NoErr}
         IN IF bad # {}
            THEN ErrDF("setting error on column " \o ToString(Min(bad) - 1)
                       \o ": " \o columns[Min(bad)].Err)
            ELSE [df EXCEPT !.columns = columns]

\* SelectIndexes: Indexes, one name, or a list of names.
StringIdx(v) == [kind |-> "string", v |-> v]
StringsIdx(v) == [kind |-> "strings", v |-> v]

NameNotFound(s) == "can't select columns: column name " \o Quote(s) \o " not found"

\* parseSelectIndexes(l, indexes, colnames): 0-based column positions, not
\* checked against l, or an error.
parseSelectIndexes(l, indexes, colnames) ==
    CASE indexes.kind \in {"ints", "int", "bools"} -> parseIndexes(l, indexes)
      [] indexes.kind = "string" ->
            IF findInStringSlice(indexes.v, colnames) < 0
            THEN [idx |-> <<>>, err |-> NameNotFound(indexes.v)]
            ELSE [idx |-> <<findInStringSlice(indexes.v, colnames)>>, err |-> NoErr]
      [] indexes.kind = "strings" ->
            LET absent == {k \in 1..Len(indexes.v) :
                               findInStringSlice(indexes.v[k], colnames) < 0}
            IN IF absent # {}
               THEN [idx |-> <<>>, err |-> NameNotFound(indexes.v[Min(absent)])]
               ELSE [idx |-> [k \in 1..Len(indexes.v) |->
                                 findInStringSlice(indexes.v[k], colnames)],
                     err |-> NoErr]
      [] OTHER -> [idx |-> <<>>, err |-> "indexing error: unknown indexing mode"]

\* GotaDataFrame.Select.
Select(df, indexes) ==
    LET p == parseSelectIndexes(df.ncols, indexes, Names(df))
    IN IF df.Err # NoErr THEN df
       ELSE IF p.err # NoErr THEN ErrDF("can't select columns: " \o p.err)
       ELSE IF \E k \in 1..Len(p.idx) : p.idx[k] < 0 \/ p.idx[k] >= df.ncols
       THEN ErrDF("can't select columns: index out of range")
       ELSE Compose([k \in 1..Len(p.idx) |-> SeriesCopy(df.columns[p.idx[k] + 1])])

\* GotaDataFrame.Drop.
Drop(df, indexes) ==
    LET p == parseSelectIndexes(df.ncols, indexes, Names(df))
        kept == SelectSeq([k \in 1..Len(df.columns) |-> k - 1],
                          LAMBDA k : ~inIntSlice(k, p.idx))
    IN IF df.Err # NoErr THEN df
       ELSE IF p.err # NoErr THEN ErrDF("can't select columns: " \o p.err)
       ELSE Compose([k \in 1..Len(kept) |-> SeriesCopy(df.columns[kept[k] + 1])])

\* GotaDataFrame.Rename: the name is stored in the copy as it is given.
Rename(df, newname, oldname) ==
    LET idx == findInStringSlice(oldname, Names(df))
    IN IF df.Err # NoErr THEN df
       ELSE IF idx = -1 THEN ErrDF("rename: can't find column name")
       ELSE [Copy(df) EXCEPT !.columns[idx + 1].Name = newname]

\* GotaDataFrame.SetNames: the error it returns.
SetNamesErr(df, colnames) ==
    IF df.Err # NoErr THEN df.Err
    ELSE IF Len(colnames) # df.ncols THEN "setting names: wrong dimensions"
    ELSE NoErr

\* GotaDataFrame.SetNames: the Table afterwards; the names are stored in the
\* receiver's columns as they are given.
SetNames(df, colnames) ==
    IF SetNamesErr(df, colnames) # NoErr THEN df
    ELSE [df EXCEPT !.columns = [k \in 1..Len(df.columns) |->
                                    [df.columns[k] EXCEPT !.Name = colnames[k]]]]

\* GotaDataFrame.CBind.
CBind(df, dfb) ==
    IF df.Err # NoErr THEN df
    ELSE IF dfb.Err # NoErr THEN dfb
    ELSE New(df.columns \o dfb.columns)

\* GotaSeries.Concat.
SeriesConcat(s, x) ==
    IF s.Err # NoErr THEN s
    ELSE IF x.Err # NoErr
    THEN [s EXCEPT !.Err = "concat error: argument has errors: " \o x.Err]
    ELSE [SeriesCopy(s) EXCEPT !.elements = @ \o x.elements]

\* The receiver after GotaSeries.Concat: an argument that carries an error
\* stores an error in the receiver; otherwise a copy is extended.
SeriesConcatReceiver(s, x) ==
    IF s.Err = NoErr /\ x.Err # NoErr
    THEN [s EXCEPT !.Err = "concat error: argument has errors: " \o x.Err]
    ELSE s

\* series.New(make([]struct{}, n), t, name): n missing elements.
NaNSeries(name, n) == Series(name, [i \in 1..n |-> NaNElement], NoErr)

\* GotaDataFrame.RBind.
RBind(df, dfb) ==
    LET names == Names(df)
        absent == {k \in 1..Len(names) : findInStringSlice(names[k], Names(dfb)) = -1}
        upto == IF absent = {} THEN Len(names) ELSE Min(absent) - 1
        expandedSeries ==
            [k \in 1..upto |->
                SeriesConcat(df.columns[k],
                             dfb.columns[findInStringSlice(names[k], Names(dfb)) + 1])]
        bad == {k \in 1..upto : expandedSeries[k].Err # NoErr}
    IN IF df.Err # NoErr THEN df
       ELSE IF dfb.Err # NoErr THEN dfb
       ELSE IF bad # {} THEN ErrDF("rbind: " \o expandedSeries[Min(bad)].Err)
       ELSE IF absent # {} THEN ErrDF("rbind: column names are not compatible")
       ELSE New(expandedSeries)

\* The names of the receiver alone.
ConcatColsOfReceiver(df, dfb) == Names(df)

\* The names of both Tables, each once, in order of first appearance.
ConcatCols(df, dfb) ==
    LET all == Names(df) \o Names(dfb)
        at == SelectSeq([i \in 1..Len(all) |-> i],
                        LAMBDA i : \A j \in 1..(i - 1) : all[j] # all[i])
    IN [k \in 1..Len(at) |-> all[at[k]]]

\* GotaDataFrame.Concat.
Concat(df, dfb) ==
    LET cols == ConcatCols(df, dfb)
        aidx(v) == findInStringSlice(v, Names(df))
        bidx(v) == findInStringSlice(v, Names(dfb))
        a(v) == IF aidx(v) # -1 THEN df.columns[aidx(v) + 1]
                ELSE NaNSeries(dfb.columns[bidx(v) + 1].Name, df.nrows)
        b(v) == IF bidx(v) # -1 THEN dfb.columns[bidx(v) + 1]
                ELSE NaNSeries(a(v).Name, dfb.nrows)
        expandedSeries == [k \in 1..Len(cols) |-> SeriesConcat(a(cols[k]), b(cols[k]))]
        bad == {k \in 1..Len(cols) : expandedSeries[k].Err # NoErr}
    IN IF df.Err # NoErr THEN df
       ELSE IF dfb.Err # NoErr THEN dfb
       ELSE IF bad # {} THEN ErrDF("concat: " \o expandedSeries[Min(bad)].Err)
       ELSE New(expandedSeries)

\* GotaDataFrame.Mutate: s takes the place of the column of its name, looked
\* up in the receiver's names, or follows the columns.
Mutate(df, s) ==
    LET idx == findInStringSlice(s.Name, Names(df))
        copied == Copy(df).columns
        columns == IF idx # -1 THEN [copied EXCEPT ![idx + 1] = s]
                   ELSE Append(copied, s)
    IN IF df.Err # NoErr THEN df
       ELSE IF SeriesLen(s) # df.nrows THEN ErrDF("mutate: wrong dimensions")
       ELSE Compose(columns)

\* Filters: F{Colidx, Colname, Comparator, Comparando}.
F(colidx, colname, comparator, comparando) ==
    [Colidx |-> colidx, Colname |-> colname,
     Comparator |-> comparator, Comparando |-> comparando]

Comparators == {"==", "!=", ">", ">=", "<", "<="}

\* compareElements of compareToNumber: element a against NewElement(b).
compareElements(a, b, c) ==
    CASE c = "==" -> ElementValueEq(a, NewElement(b))
      [] c = "!=" -> ~ElementValueEq(a, NewElement(b))
      [] c = ">"  -> a.value > b
      [] c = ">=" -> a.value >= b
      [] c = "<"  -> ElementValueLess(a, NewElement(b))
      [] c = "<=" -> a.value <= b

\* GotaSeries.Compare with a number: one boolean per element.
Compare(s, comparator, comparando) ==
    [i \in 1..SeriesLen(s) |-> compareElements(Elem(s, i - 1), comparando, comparator)]

\* The column a filter reads (0-based), or -1 when its name is absent.
FilterColumn(df, f) ==
    IF f.Colname = "" THEN f.Colidx ELSE findInStringSlice(f.Colname, Names(df))

\* The filters up to the first one whose column name is absent.
FiltersRead(df, filters) ==
    LET absent == {i \in 1..Len(filters) : FilterColumn(df, filters[i]) < 0
                                           /\ filters[i].Colname # ""}
    IN SubSeq(filters, 1, IF absent = {} THEN Len(filters) ELSE Min(absent) - 1)

\* FilterAggregation panics: a column position out of range, a comparator
\* that compareElements does not know met by an element, an aggregation that
\* is neither Or nor And met by a row.
FilterAggregationPanics(df, agg, filters) ==
    /\ df.Err = NoErr
    /\ \/ \E i \in 1..Len(FiltersRead(df, filters)) :
             \/ FilterColumn(df, filters[i]) < 0
             \/ FilterColumn(df, filters[i]) >= Len(df.columns)
             \/ /\ filters[i].Comparator \notin Comparators
                /\ df.nrows > 0
       \/ /\ FiltersRead(df, filters) = filters
          /\ Len(filters) > 1
          /\ df.nrows > 0
          /\ agg \notin {"or", "and"}

\* The aggregation of the comparison results from filter i on.
RECURSIVE FilterAggregate(_, _, _, _)
FilterAggregate(agg, compResults, i, acc) ==
    IF i > Len(compResults) THEN acc
    ELSE FilterAggregate(agg, compResults, i + 1,
             [j \in 1..Len(acc) |->
                 IF agg = "or" THEN acc[j] \/ compResults[i][j]
                 ELSE acc[j] /\ compResults[i][j]])

\* GotaDataFrame.FilterAggregation.
FilterAggregation(df, agg, filters) ==
    LET compResults ==
            [i \in 1..Len(filters) |->
                Compare(df.columns[FilterColumn(df, filters[i]) + 1],
                        filters[i].Comparator, filters[i].Comparando)]
    IN IF df.Err # NoErr THEN df
       ELSE IF FiltersRead(df, filters) # filters
       THEN ErrDF("filter: can't find column name")
       ELSE IF Len(filters) = 0 THEN Copy(df)
       ELSE Subset(df, BoolsIdx(FilterAggregate(agg, compResults, 2, compResults[1])))

\* GotaDataFrame.Filter.
Filter(df, filters) == FilterAggregation(df, "or", filters)

\* The functions handed to CApply and RApply, by name: a copy, the present
\* elements only, a failure.
UserFunctions == {"copy", "present", "fail"}

UserFunction(name, s) ==
    CASE name = "copy" -> SeriesCopy(s)
      [] name = "present" ->
            SeriesSubset(s, BoolsIdx([i \in 1..SeriesLen(s) |->
                                         ~IsNA(Elem(s, i - 1))]))
      [] name = "fail" -> [s EXCEPT !.Err = "f failed"]

\* GotaDataFrame.CApply: f on every column, the column's name kept.
CApply(df, f) ==
    IF df.Err # NoErr THEN df
    ELSE New([i \in 1..Len(df.columns) |->
                 [UserFunction(f, df.columns[i]) EXCEPT !.Name = df.columns[i].Name]])

\* RApply panics on a Table without rows (a slice of length -1 is made) or
\* without columns (no type is detected).
RApplyPanics(df) == df.Err = NoErr /\ (df.nrows = 0 \/ df.ncols = 0)

\* The row i (0-based) of df as the Series handed to f.
RApplyRow(df, i) == Series("", [c \in 1..Len(df.columns) |-> Elem(df.columns[c], i)], NoErr)

\* GotaDataFrame.RApply: f on every row; the first row that fails or whose
\* length differs from the row before it gives the error.
RApply(df, f) ==
    LET rows == [i \in 1..df.nrows |-> UserFunction(f, RApplyRow(df, i - 1))]
        failed(i) == rows[i].Err # NoErr
        uneven(i) == i > 1 /\ SeriesLen(rows[i]) # SeriesLen(rows[i - 1])
        bad == {i \in 1..df.nrows : failed(i) \/ uneven(i)}
        rowlen == SeriesLen(rows[df.nrows])
    IN IF df.Err # NoErr THEN df
       ELSE IF bad # {} /\ failed(Min(bad))
       THEN ErrDF("error applying function on row " \o ToString(Min(bad) - 1)
                  \o ": " \o rows[Min(bad)].Err)
       ELSE IF bad # {}
       THEN ErrDF("error applying function: rows have different lengths")
       ELSE Compose([j \in 1..rowlen |->
                        Series("", [i \in 1..df.nrows |-> Elem(rows[i], j - 1)], NoErr)])

\* The elements appended for a right row without a match: its keys,
\* Append(nil) on every left non-key column, its other columns.
joinRightOnlyRow(df, b, jc, j) ==
    [k \in 1..Len(jc.iKeysB) |-> Elem(b.columns[jc.iKeysB[k] + 1], j)]
    \o [k \in 1..Len(jc.iNotKeysA) |-> NaNElement]
    \o [k \in 1..Len(jc.iNotKeysB) |-> Elem(b.columns[jc.iNotKeysB[k] + 1], j)]

\* yesmatched of RightJoin from right row j on: the matching pairs, right
\* row major.
RECURSIVE RightJoinMatched(_, _, _, _)
RightJoinMatched(df, b, jc, j) ==
    IF j >= b.nrows THEN <<>>
    ELSE LET is == SelectSeq([i \in 1..df.nrows |-> i - 1],
                             LAMBDA i : joinMatch(df, b, jc, i, j))
         IN [k \in 1..Len(is) |-> joinMatchedRow(df, b, jc, is[k], j)]
            \o RightJoinMatched(df, b, jc, j + 1)

\* The rows for nonmatched if every right row were taken, matched or not.
RightOnlyRowsOfAll(df, b, jc) ==
    [j \in 1..b.nrows |-> joinRightOnlyRow(df, b, jc, j - 1)]

\* The rows for nonmatched if no right row were taken.
RightOnlyRowsOfNone(df, b, jc) == SubSeq(RightOnlyRowsOfAll(df, b, jc), 1, 0)

\* The rows for nonmatched: the right rows that match no left row.
RightOnlyRows(df, b, jc) ==
    LET js == SelectSeq([j \in 1..b.nrows |-> j - 1],
                        LAMBDA j : \A i \in 0..(df.nrows - 1) :
                                       ~joinMatch(df, b, jc, i, j))
    IN [k \in 1..Len(js) |-> joinRightOnlyRow(df, b, jc, js[k])]

\* GotaDataFrame.RightJoin.
RightJoin(df, b, keys) ==
    IF joinPrecheck(df, b, keys) # NoErr THEN ErrDF(joinPrecheck(df, b, keys))
    ELSE LET jc == joinColumns(df, b, keys)
         IN joinResult(df, b, jc,
                       RightJoinMatched(df, b, jc, 0) \o RightOnlyRows(df, b, jc))

\* GotaDataFrame.OuterJoin.
OuterJoin(df, b, keys) ==
    IF joinPrecheck(df, b, keys) # NoErr THEN ErrDF(joinPrecheck(df, b, keys))
    ELSE LET jc == joinColumns(df, b, keys)
         IN joinResult(df, b, jc,
                       LeftJoinRows(df, b, jc, 0) \o RightOnlyRows(df, b, jc))

\* CrossJoin with the right row as the slow index.
CrossJoinRightRowMajor(df, b) ==
    LET pairs == [p \in 1..(df.nrows * b.nrows) |->
                     [i |-> (p - 1) % df.nrows, j |-> (p - 1) \div df.nrows]]
    IN New([c \in 1..df.ncols |->
               SeriesAppend(SeriesEmpty(df.columns[c]),
                            [p \in 1..Len(pairs) |-> Elem(df.columns[c], pairs[p].i)])]
           \o [c \in 1..b.ncols |->
                  SeriesAppend(SeriesEmpty(b.columns[c]),
                               [p \in 1..Len(pairs) |-> Elem(b.columns[c], pairs[p].j)])])

\* GotaDataFrame.CrossJoin: every left row with every right row, left row
\* major. The receiver's error is not looked at.
CrossJoin(df, b) ==
    LET pairs == [p \in 1..(df.nrows * b.nrows) |->
                     [i |-> (p - 1) \div b.nrows, j |-> (p - 1) % b.nrows]]
    IN New([c \in 1..df.ncols |->
               SeriesAppend(SeriesEmpty(df.columns[c]),
                            [p \in 1..Len(pairs) |-> Elem(df.columns[c], pairs[p].i)])]
           \o [c \in 1..b.ncols |->
                  SeriesAppend(SeriesEmpty(b.columns[c]),
                               [p \in 1..Len(pairs) |-> Elem(b.columns[c], pairs[p].j)])])

(***************************************************************************)
(* Inputs.                                                                 *)
(***************************************************************************)
ColNames == {"a", "b"}

\* The values start, start+1, ... (mod MaxVal+1), n of them.
Ramp(start, n) == [i \in 1..n |-> NewElement((start + i - 1) % (MaxVal + 1))]

\* Columns handed to New: present values, a missing element, or a column
\* that already carries an error.
InputSeries ==
    {Series(n, Ramp(s, l), NoErr) : n \in ColNames, s \in 0..MaxVal, l \in 0..MaxRows}
    \cup {Series(n, <<NaNElement>>, NoErr) : n \in ColNames}
    \cup {Series("", Ramp(0, 1), "series error")}

(***************************************************************************)
(* SpecNew: New applied to every sequence of at most MaxCols input        *)
(* columns.                                                                *)
(***************************************************************************)
InitNew ==
    /\ op = "init"
    /\ recv = None
    /\ arg \in SeqsUpTo(InputSeries, MaxCols)
    /\ res = None

DoNew ==
    /\ op = "init"
    /\ op' = "New"
    /\ res' = New(arg)
    /\ UNCHANGED <<recv, arg>>

NextNew == DoNew

SpecNew == InitNew /\ [][NextNew]_vars

ErrorFree(se) == \A i \in 1..Len(se) : se[i].Err = NoErr
EqualLength(se) == \A i, j \in 1..Len(se) : SeriesLen(se[i]) = SeriesLen(se[j])

\* The third part of C4: error-free inputs of equal length give an error-free
\* Table holding one column per input, in input order.
NewKeepsColumns ==
    (Len(arg) > 0 /\ ErrorFree(arg) /\ EqualLength(arg)) =>
        /\ res.Err = NoErr
        /\ res.ncols = Len(arg)
        /\ Len(res.columns) = Len(arg)
        /\ \A i \in 1..Len(arg) : res.columns[i].elements = arg[i].elements

\* C4 as stated: New with zero columns fails with "no columns given", New
\* with columns of differing lengths fails with "arguments have different
\* dimensions", every other call succeeds and keeps the columns in order.
C4_NewValidation_AsStated ==
    op = "New" =>
        /\ Len(arg) = 0 => res.Err = "no columns given"
        /\ ~EqualLength(arg) => res.Err = "arguments have different dimensions"
        /\ NewKeepsColumns

\* C4 amended: New with zero columns fails with "empty DataFrame"; New with
\* error-free columns of differing lengths fails with "arguments have
\* different dimensions"; error-free columns of equal length give an
\* error-free Table holding one column per input, in input order.
C4_NewValidation ==
    op = "New" =>
        /\ Len(arg) = 0 => res.Err = "empty DataFrame"
        /\ (ErrorFree(arg) /\ ~EqualLength(arg)) =>
               res.Err = "arguments have different dimensions"
        /\ NewKeepsColumns

\* C4 witness: New has run once on no column, once on columns of differing
\* lengths; here the second.
C4_Witness ==
    /\ op = "New"
    /\ Len(arg) = 2
    /\ ErrorFree(arg)
    /\ ~EqualLength(arg)
    /\ res.Err = "arguments have different dimensions"

(***************************************************************************)
(* SpecOrder: Order applied to every column of at most OrderMaxLen        *)
(* elements, present (0..OrderMaxVal) or missing, in both directions.     *)
(***************************************************************************)
OrderMaxLen == 4
OrderMaxVal == 3

OrderElements == {NewElement(v) : v \in 0..OrderMaxVal} \cup {NaNElement}

InitOrder ==
    /\ op = "init"
    /\ recv \in {Series("a", e, NoErr) : e \in SeqsUpTo(OrderElements, OrderMaxLen)}
    /\ arg = None
    /\ res = None

DoOrder ==
    /\ op = "init"
    /\ \E reverse \in BOOLEAN :
          /\ arg' = reverse
          /\ res' = SeriesOrder(recv, reverse)
    /\ op' = "Order"
    /\ UNCHANGED recv

NextOrder == DoOrder

SpecOrder == InitOrder /\ [][NextOrder]_vars

IsPermutation(p, n) ==
    /\ Len(p) = n
    /\ \A i \in 0..(n - 1) : \E k \in 1..n : p[k] = i

\* The number of present elements of s.
Present(s) == Cardinality({i \in 1..SeriesLen(s) : ~IsNA(s.elements[i])})

\* C8: Order(reverse) is a permutation of 0..Len-1; the positions of the
\* present elements come first, by value (ascending, or descending when
\* reverse), equal values in position order in both directions; the positions
\* of the missing elements follow in order of appearance; and
\* [3,1,2,missing].Order(false) = [1,2,0,3].
C8_Order ==
    op = "Order" =>
        /\ IsPermutation(res, SeriesLen(recv))
        /\ \A k \in 1..Len(res) : IsNA(Elem(recv, res[k])) <=> k > Present(recv)
        /\ \A k \in 1..(Len(res) - 1) :
              LET x == Elem(recv, res[k])
                  y == Elem(recv, res[k + 1])
              IN /\ (~IsNA(x) /\ ~IsNA(y)) =>
                       /\ IF arg THEN x.value >= y.value ELSE x.value <= y.value
                       /\ x.value = y.value => res[k] < res[k + 1]
                 /\ (IsNA(x) /\ IsNA(y)) => res[k] < res[k + 1]
        /\ (recv.elements = <<NewElement(3), NewElement(1), NewElement(2), NaNElement>>
            /\ ~arg) => res = <<1, 2, 0, 3>>

\* C8 witness: a reverse Order of a column with two equal values, a larger
\* one after them and a missing element before them.
C8_Witness ==
    /\ op = "Order"
    /\ arg
    /\ recv.elements = <<NaNElement, NewElement(1), NewElement(1), NewElement(2)>>
    /\ res = <<3, 1, 2, 0>>

(***************************************************************************)
(* SpecArrange: Arrange applied to every Table of two columns and at     *)
(* most ArrangeMaxRows rows under every list of at most ArrangeMaxKeys    *)
(* keys, then applied again to its own result.                            *)
(***************************************************************************)
ArrangeMaxRows == 3
ArrangeMaxKeys == 3

ArrangeElements == {NewElement(v) : v \in 0..MaxVal} \cup {NaNElement}

\* The Tables of two columns a and b with n rows.
ArrangeTables(n) ==
    {New(<<Series("a", ea, NoErr), Series("b", eb, NoErr)>>) :
        ea \in [1..n -> ArrangeElements], eb \in [1..n -> ArrangeElements]}

InitArrange ==
    /\ op = "init"
    /\ recv \in UNION {ArrangeTables(n) : n \in 0..ArrangeMaxRows}
    /\ arg = None
    /\ res = None

ArrangeKeys(df) ==
    UNION {[1..k -> {OrderKey(n, r) : n \in Range(Names(df)), r \in BOOLEAN}] :
              k \in 1..ArrangeMaxKeys}

DoArrange ==
    /\ op = "init"
    /\ \E order \in ArrangeKeys(recv) :
          /\ arg' = order
          /\ res' = Arrange(recv, order)
    /\ op' = "Arrange"
    /\ UNCHANGED recv

DoArrangeAgain ==
    /\ op = "Arrange"
    /\ recv' = res
    /\ res' = Arrange(res, arg)
    /\ op' = "ArrangeAgain"
    /\ UNCHANGED arg

NextArrange == DoArrange \/ DoArrangeAgain

SpecArrange == InitArrange /\ [][NextArrange]_vars

NoMissing(df) ==
    \A c \in 1..Len(df.columns) : \A i \in 1..SeriesLen(df.columns[c]) :
        ~IsNA(df.columns[c].elements[i])

\* The element of row r (1-based) of df in the column named colname.
Cell(df, colname, r) == df.columns[ColIndex(df, colname) + 1].elements[r]

\* Rows r and q of df agree on every key of order.
KeysEq(df, order, r, q) ==
    \A k \in 1..Len(order) :
        ElementValueEq(Cell(df, order[k].Colname, r), Cell(df, order[k].Colname, q))

\* C5: any two adjacent output rows of Arrange are ordered by the first key
\* on which they differ, ascending, or descending when that key is reverse,
\* for every number of keys (stated for Tables without missing elements).
C5_ArrangeLexicographic ==
    (op = "Arrange" /\ NoMissing(recv)) =>
        /\ res.Err = NoErr
        /\ res.nrows = recv.nrows
        /\ \A r \in 1..(res.nrows - 1) :
              LET differ == {k \in 1..Len(arg) :
                                Cell(res, arg[k].Colname, r).value
                                    # Cell(res, arg[k].Colname, r + 1).value}
                  x == Cell(res, arg[Min(differ)].Colname, r).value
                  y == Cell(res, arg[Min(differ)].Colname, r + 1).value
              IN differ # {} =>
                    IF arg[Min(differ)].Reverse THEN x > y ELSE x < y

\* The permutations p of the rows such that the output is the input
\* re-indexed by p (values compared, as Subset keeps the values).
RowSources(in, out) ==
    {p \in [1..in.nrows -> 1..in.nrows] :
        /\ \A i, j \in 1..in.nrows : i # j => p[i] # p[j]
        /\ \A c \in 1..Len(in.columns) : \A r \in 1..in.nrows :
              out.columns[c].elements[r].value = in.columns[c].elements[p[r]].value}

\* C6: Arrange is stable: rows that are equal on all keys appear in the
\* output in their input order.
C6_ArrangeStable ==
    op = "Arrange" =>
        /\ res.Err = NoErr
        /\ res.nrows = recv.nrows
        /\ \E p \in RowSources(recv, res) :
              \A x, y \in 1..recv.nrows :
                  (x < y /\ KeysEq(recv, arg, p[x], p[y])) => p[x] < p[y]

\* C7: Arrange is idempotent: arranging the result again by the same keys
\* gives the same rows in the same order.
C7_ArrangeIdempotent ==
    op = "ArrangeAgain" =>
        /\ res.Err = NoErr
        /\ \A c \in 1..Len(recv.columns) :
              res.columns[c].elements = recv.columns[c].elements

(***************************************************************************)
(* SpecJoin: the five joins applied to pairs of Tables of at most         *)
(* JoinMaxRows rows. The left Table has the columns x, id, k and the      *)
(* right one id, y, k; id holds 0, 1 or a missing element, k holds 0 or   *)
(* 1, and x and y number the rows of their Table (10, 11, ... and 20,     *)
(* 21, ...), so that an output row names the rows it was built from.      *)
(* The Tables of the documented example (id 1,2,3 and id 2,3,4) are       *)
(* joined as well.                                                         *)
(***************************************************************************)
JoinMaxRows == 2

JoinIds == {NewElement(0), NewElement(1), NaNElement}
JoinKs == {NewElement(0), NewElement(1)}

RowNumbers(from, n) == [i \in 1..n |-> NewElement(from + i - 1)]

JoinLeftTables ==
    UNION {{New(<<Series("x", RowNumbers(10, n), NoErr),
                  Series("id", ids, NoErr),
                  Series("k", ks, NoErr)>>) :
               ids \in [1..n -> JoinIds], ks \in [1..n -> JoinKs]} :
           n \in 0..JoinMaxRows}

JoinRightTables ==
    UNION {{New(<<Series("id", ids, NoErr),
                  Series("y", RowNumbers(20, n), NoErr),
                  Series("k", ks, NoErr)>>) :
               ids \in [1..n -> JoinIds], ks \in [1..n -> JoinKs]} :
           n \in 0..JoinMaxRows}

JoinKeyLists == {<<"id">>, <<"id", "k">>, <<"k", "id">>}

\* A = id:[1,2,3], x:[a,b,c] and B = id:[2,3,4], y:[p,q,r], the texts a, b, c
\* written 10, 11, 12 and p, q, r written 20, 21, 22.
ExampleA == New(<<NewSeries("id", <<1, 2, 3>>), NewSeries("x", <<10, 11, 12>>)>>)
ExampleB == New(<<NewSeries("id", <<2, 3, 4>>), NewSeries("y", <<20, 21, 22>>)>>)

InitJoin ==
    /\ op = "init"
    /\ \/ /\ recv \in JoinLeftTables
          /\ arg \in [b : JoinRightTables, keys : JoinKeyLists]
       \/ /\ recv = ExampleA
          /\ arg = [b |-> ExampleB, keys |-> <<"id">>]
    /\ res = None

DoInnerJoin ==
    /\ op = "init"
    /\ op' = "InnerJoin"
    /\ res' = InnerJoin(recv, arg.b, arg.keys)
    /\ UNCHANGED <<recv, arg>>

DoLeftJoin ==
    /\ op = "init"
    /\ op' = "LeftJoin"
    /\ res' = LeftJoin(recv, arg.b, arg.keys)
    /\ UNCHANGED <<recv, arg>>

DoRightJoinPair ==
    /\ op = "init"
    /\ op' = "RightJoin"
    /\ res' = RightJoin(recv, arg.b, arg.keys)
    /\ UNCHANGED <<recv, arg>>

DoOuterJoinPair ==
    /\ op = "init"
    /\ op' = "OuterJoin"
    /\ res' = OuterJoin(recv, arg.b, arg.keys)
    /\ UNCHANGED <<recv, arg>>

DoCrossJoinPair ==
    /\ op = "init"
    /\ op' = "CrossJoin"
    /\ res' = CrossJoin(recv, arg.b)
    /\ UNCHANGED <<recv, arg>>

NextJoin ==
    \/ DoInnerJoin
    \/ DoLeftJoin
    \/ DoRightJoinPair
    \/ DoOuterJoinPair
    \/ DoCrossJoinPair

SpecJoin == InitJoin /\ [][NextJoin]_vars

\* Rows i of A and j of B (1-based) carry equal values on every key.
KeyMatch(A, B, keys, i, j) ==
    \A k \in 1..Len(keys) :
        ElementValueEq(Cell(A, keys[k], i), Cell(B, keys[k], j))

\* The matching pairs, and the place of a pair in i-major, then j, order.
MatchingPairs(A, B, keys) ==
    {m \in (1..A.nrows) \X (1..B.nrows) : KeyMatch(A, B, keys, m[1], m[2])}

PairBefore(m, n) == m[1] < n[1] \/ (m[1] = n[1] /\ m[2] < n[2])

\* The columns of df that are no key, in column order (1-based positions).
NonKeyColumns(df, keys) ==
    SelectSeq([c \in 1..Len(df.columns) |-> c],
              LAMBDA c : \A k \in 1..Len(keys) : df.columns[c].Name # keys[k])

\* Row r of df as the sequence of its elements.
Row(df, r) == [c \in 1..Len(df.columns) |-> df.columns[c].elements[r]]

\* The row the spec gives to the pair (i, j): A's key values, A's other
\* values, B's other values.
PairRow(A, B, keys, i, j) ==
    [k \in 1..Len(keys) |-> Cell(A, keys[k], i)]
    \o [k \in 1..Len(NonKeyColumns(A, keys)) |->
           A.columns[NonKeyColumns(A, keys)[k]].elements[i]]
    \o [k \in 1..Len(NonKeyColumns(B, keys)) |->
           B.columns[NonKeyColumns(B, keys)[k]].elements[j]]

\* The row the spec gives to a left row i that matches nothing.
LeftOnlyRow(A, B, keys, i) ==
    [k \in 1..Len(keys) |-> Cell(A, keys[k], i)]
    \o [k \in 1..Len(NonKeyColumns(A, keys)) |->
           A.columns[NonKeyColumns(A, keys)[k]].elements[i]]
    \o [k \in 1..Len(NonKeyColumns(B, keys)) |-> NaNElement]

LeftRowsBefore(A, B, keys, i) ==
    LET M == MatchingPairs(A, B, keys)
        matched == Cardinality({m \in M : m[1] < i})
        alone == Cardinality({h \in 1..(i - 1) : \A m \in M : m[1] # h})
    IN matched + alone

DistinctKeys(df, keys) ==
    \A i, j \in 1..df.nrows : i # j => ~KeyMatch(df, df, keys, i, j)

\* C11 as stated: LeftJoin(A,B,keys).NRow() == A.NRow() whenever A has no two
\* rows with the same key values.
C11_LeftJoinRowCount_AsStated ==
    (op = "LeftJoin" /\ DistinctKeys(recv, arg.keys)) => res.nrows = recv.nrows

\* C11 amended: LeftJoin(A,B,keys).NRow() == A.NRow() whenever B has no two
\* rows with the same key values: every left row then matches at most one
\* right row and contributes exactly one output row.
C11_LeftJoinRowCount ==
    (op = "LeftJoin" /\ DistinctKeys(arg.b, arg.keys)) => res.nrows = recv.nrows

\* C11 witness: two left rows with the same key values joined with two right
\* rows of distinct key values, one of which they match.
C11_Witness ==
    /\ op = "LeftJoin"
    /\ recv.nrows = 2
    /\ arg.b.nrows = 2
    /\ ~DistinctKeys(recv, arg.keys)
    /\ DistinctKeys(arg.b, arg.keys)
    /\ MatchingPairs(recv, arg.b, arg.keys) # {}
    /\ res.nrows = 2

\* The row the spec gives to a right row j that matches nothing: its key
\* values, A's other columns missing, its other values.
RightOnlyRow(A, B, keys, j) ==
    [k \in 1..Len(keys) |-> Cell(B, keys[k], j)]
    \o [k \in 1..Len(NonKeyColumns(A, keys)) |-> NaNElement]
    \o [k \in 1..Len(NonKeyColumns(B, keys)) |->
           B.columns[NonKeyColumns(B, keys)[k]].elements[j]]

\* The right rows (1-based) that match no left row.
UnmatchedRight(A, B, keys) ==
    {j \in 1..B.nrows : \A m \in MatchingPairs(A, B, keys) : m[2] # j}

\* The rows of df as a set.
Rows(df) == {Row(df, r) : r \in 1..df.nrows}

RowCount(df, v) == Cardinality({r \in 1..df.nrows : Row(df, r) = v})

\* Row r of df as a function of the column names.
RowByName(df, r) == [n \in Range(Names(df)) |-> Cell(df, n, r)]

\* L and R hold the same rows, each as often, compared by column name.
SameRowsByName(L, R) ==
    /\ Range(Names(L)) = Range(Names(R))
    /\ L.nrows = R.nrows
    /\ \A r \in 1..L.nrows :
          Cardinality({q \in 1..L.nrows : RowByName(L, q) = RowByName(L, r)})
              = Cardinality({q \in 1..R.nrows : RowByName(R, q) = RowByName(L, r)})

\* A row of LeftJoin(B,A,keys), its columns put in the order of
\* RightJoin(A,B,keys): the keys, A's other columns, B's other columns.
SwappedRow(A, B, keys, row) ==
    LET nk == Len(keys)
        na == Len(NonKeyColumns(A, keys))
        nb == Len(NonKeyColumns(B, keys))
    IN SubSeq(row, 1, nk) \o SubSeq(row, nk + nb + 1, nk + nb + na)
       \o SubSeq(row, nk + 1, nk + nb)

\* R holds the rows of L = LeftJoin(B,A,keys), each as often, compared by the
\* column of A or B that the values come from.
SameRowsBySource(A, B, keys, L, R) ==
    /\ L.nrows = R.nrows
    /\ \A r \in 1..L.nrows :
          Cardinality({q \in 1..L.nrows : Row(L, q) = Row(L, r)})
              = RowCount(R, SwappedRow(A, B, keys, Row(L, r)))

\* RightJoin(A,B,keys) holds one row per matching pair and exactly one row
\* per right row without a match, so every right row appears.
RightJoinRows(A, B, keys, R) ==
    LET M == MatchingPairs(A, B, keys)
        U == UnmatchedRight(A, B, keys)
    IN /\ R.Err = NoErr
       /\ R.nrows = Cardinality(M) + Cardinality(U)
       /\ \A m \in M : RowCount(R, PairRow(A, B, keys, m[1], m[2])) = 1
       /\ \A j \in U :
             RowCount(R, RightOnlyRow(A, B, keys, j))
                 = Cardinality({h \in U : RightOnlyRow(A, B, keys, h)
                                             = RightOnlyRow(A, B, keys, j)})

DisjointNonKeys(A, B, keys) ==
    \A i \in 1..Len(NonKeyColumns(A, keys)) : \A j \in 1..Len(NonKeyColumns(B, keys)) :
        A.columns[NonKeyColumns(A, keys)[i]].Name
            # B.columns[NonKeyColumns(B, keys)[j]].Name

JoinAbsentKeyLists ==
    {<<>>, <<"x">>, <<"y">>, <<"z">>, <<"id", "z">>, <<"z", "x">>,
     <<"y", "id", "x">>, <<"k", "id">>}

InitJoinKeys ==
    /\ op = "init"
    /\ recv \in JoinLeftTables
    /\ arg \in [b : JoinRightTables, keys : JoinAbsentKeyLists]
    /\ res = None

DoInnerJoinKeys ==
    /\ op = "init"
    /\ op' = "InnerJoin"
    /\ res' = InnerJoin(recv, arg.b, arg.keys)
    /\ UNCHANGED <<recv, arg>>

DoLeftJoinKeys ==
    /\ op = "init"
    /\ op' = "LeftJoin"
    /\ res' = LeftJoin(recv, arg.b, arg.keys)
    /\ UNCHANGED <<recv, arg>>

DoRightJoinKeys ==
    /\ op = "init"
    /\ op' = "RightJoin"
    /\ res' = RightJoin(recv, arg.b, arg.keys)
    /\ UNCHANGED <<recv, arg>>

DoOuterJoinKeys ==
    /\ op = "init"
    /\ op' = "OuterJoin"
    /\ res' = OuterJoin(recv, arg.b, arg.keys)
    /\ UNCHANGED <<recv, arg>>

NextJoinKeys ==
    \/ DoInnerJoinKeys
    \/ DoLeftJoinKeys
    \/ DoRightJoinKeys
    \/ DoOuterJoinKeys

SpecJoinKeys == InitJoinKeys /\ [][NextJoinKeys]_vars

HasColumn(df, name) == \E c \in 1..Len(df.columns) : df.columns[c].Name = name

\* The (key, side) pairs whose column is absent, in key order, the left side
\* of a key before its right side.
MissingKeys(A, B, keys) ==
    SelectSeq([p \in 1..(2 * Len(keys)) |->
                  [key |-> keys[(p + 1) \div 2],
                   side |-> IF p % 2 = 1 THEN "left" ELSE "right"]],
              LAMBDA s : ~HasColumn(IF s.side = "left" THEN A ELSE B, s.key))

\* The message that names every pair of missing, one line each.
RECURSIVE MissingKeysMessage(_)
MissingKeysMessage(missing) ==
    IF missing = <<>> THEN ""
    ELSE "can't find key \"" \o Head(missing).key \o "\" on " \o Head(missing).side
         \o " DataFrame"
         \o (IF Len(missing) > 1 THEN "\n" ELSE "")
         \o MissingKeysMessage(Tail(missing))

\* C15: a keyed join called with zero keys returns a Table that carries an
\* error; called with a key absent from the left or the right Table it
\* returns a Table that carries an error naming every missing (key, side)
\* pair, and holds no row.
C15_JoinKeyValidation ==
    op \in {"InnerJoin", "LeftJoin", "RightJoin", "OuterJoin"} =>
        LET missing == MissingKeys(recv, arg.b, arg.keys)
        IN /\ Len(arg.keys) = 0 => (res.Err # NoErr /\ res.columns = <<>>)
           /\ missing # <<>> =>
                 /\ res.Err = MissingKeysMessage(missing)
                 /\ res.columns = <<>>
                 /\ res.nrows = 0

\* C15 witness: an OuterJoin on three keys, the first absent from the left
\* Table and the last absent from the right one.
C15_Witness ==
    /\ op = "OuterJoin"
    /\ arg.keys = <<"y", "id", "x">>
    /\ recv.nrows > 0
    /\ arg.b.nrows > 0
    /\ res.Err = "can't find key \"y\" on left DataFrame\n"
                 \o "can't find key \"x\" on right DataFrame"

(***************************************************************************)
(* SpecSubset: a Table of one or two columns whose elements are present    *)
(* or missing is subset by a permutation of its row positions, and the     *)
(* result by the inverse permutation.                                      *)
(***************************************************************************)
SubsetMaxRows == 3

SubsetElements == {NewElement(0), NewElement(1), NaNElement}

SubsetTables ==
    {New(<<Series("a", e, NoErr)>>) : e \in SeqsUpTo(SubsetElements, SubsetMaxRows)}
    \cup UNION {{New(<<Series("a", e, NoErr), Series("b", f, NoErr)>>) :
                    f \in [1..Len(e) -> {NaNElement, NewElement(1)}]} :
                e \in SeqsUpTo(SubsetElements, SubsetMaxRows - 1)}

\* The permutations of 0..n-1, as position lists.
RowPermutations(n) ==
    {p \in [1..n -> 0..(n - 1)] : \A i, j \in 1..n : p[i] = p[j] => i = j}

inverse(p) == [i \in 1..Len(p) |-> (CHOOSE j \in 1..Len(p) : p[j] = i - 1) - 1]

InitSubset ==
    /\ op = "init"
    /\ recv \in SubsetTables
    /\ arg \in RowPermutations(recv.nrows)
    /\ res = recv

DoSubsetPermutation ==
    /\ op = "init"
    /\ ~SubsetPanics(res, IntsIdx(arg))
    /\ op' = "Subset"
    /\ res' = Subset(res, IntsIdx(arg))
    /\ UNCHANGED <<recv, arg>>

DoSubsetInverse ==
    /\ op = "Subset"
    /\ ~SubsetPanics(res, IntsIdx(inverse(arg)))
    /\ op' = "SubsetInverse"
    /\ res' = Subset(res, IntsIdx(inverse(arg)))
    /\ UNCHANGED <<recv, arg>>

NextSubset ==
    \/ DoSubsetPermutation
    \/ DoSubsetInverse

SpecSubset == InitSubset /\ [][NextSubset]_vars

\* C17: a Table subset by a permutation of its rows and then by the inverse
\* permutation has the names, the values and the missing flags of the Table
\* it started as.
C17_SubsetInvertible ==
    op = "SubsetInverse" =>
        /\ Names(res) = Names(recv)
        /\ res.nrows = recv.nrows
        /\ \A c \in 1..Len(recv.columns) :
              \A r \in 0..(recv.nrows - 1) :
                  /\ Elem(res.columns[c], r).value = Elem(recv.columns[c], r).value
                  /\ IsNA(Elem(res.columns[c], r)) = IsNA(Elem(recv.columns[c], r))

(***************************************************************************)
(* SpecFindType: findType applied to columns of tokens, and the type that  *)
(* LoadRecords gives a column.  A token is the sequence of its characters. *)
(***************************************************************************)
MaxTokens == 3

Tokens ==
    {<<>>, <<"N", "a", "N">>, <<"N", "A">>, <<"n", "a", "n">>,
     <<"1">>, <<"2">>, <<"3">>, <<"-", "1">>,
     <<"2", ".", "5">>, <<".", "5">>, <<"1", "e", "3">>, <<"I", "n", "f">>,
     <<"t", "r", "u", "e">>, <<"f", "a", "l", "s", "e">>, <<"T", "r", "u", "e">>,
     <<"a">>, <<"1", "a">>, <<".">>}

Digits == {"0", "1", "2", "3", "4", "5", "6", "7", "8", "9"}

IsDigits(s) == Len(s) > 0 /\ \A i \in 1..Len(s) : s[i] \in Digits

StripSign(s) == IF Len(s) > 0 /\ s[1] \in {"+", "-"} THEN Tail(s) ELSE s

Lower(c) ==
    CASE c = "A" -> "a" [] c = "F" -> "f" [] c = "I" -> "i" [] c = "N" -> "n"
      [] c = "T" -> "t" [] c = "Y" -> "y" [] OTHER -> c

\* strconv.Atoi succeeds: an optional sign and one or more decimal digits
\* (the tokens are too short to overflow).
AtoiOk(str) == IsDigits(StripSign(str))

\* A decimal mantissa: digits with at most one point and at least one digit.
IsMantissa(s) ==
    /\ \A i \in 1..Len(s) : s[i] \in Digits \cup {"."}
    /\ \E i \in 1..Len(s) : s[i] \in Digits
    /\ Cardinality({i \in 1..Len(s) : s[i] = "."}) <= 1

\* strconv.ParseFloat succeeds: an optional sign, then inf, infinity or nan
\* in any case, or a decimal mantissa with an optional exponent (the tokens
\* hold no hexadecimal prefix and no underscore).
ParseFloatOk(str) ==
    LET s == StripSign(str)
        low == [i \in 1..Len(s) |-> Lower(s[i])]
        es == {i \in 1..Len(s) : low[i] = "e"}
    IN \/ low \in {<<"i", "n", "f">>, <<"n", "a", "n">>,
                   <<"i", "n", "f", "i", "n", "i", "t", "y">>}
       \/ es = {} /\ IsMantissa(s)
       \/ /\ es # {}
          /\ IsMantissa(SubSeq(s, 1, Min(es) - 1))
          /\ IsDigits(StripSign(SubSeq(s, Min(es) + 1, Len(s))))

\* The loop of findType with Float ranked above Boolean.
RECURSIVE findTypeFlagsFloatFirst(_, _)
findTypeFlagsFloatFirst(arr, has) ==
    IF arr = <<>> THEN has
    ELSE LET str == Head(arr)
             next == IF str = <<>> \/ str = <<"N", "a", "N">> THEN has
                     ELSE IF AtoiOk(str) THEN [has EXCEPT !.Ints = TRUE]
                     ELSE IF ParseFloatOk(str) THEN [has EXCEPT !.Ints = FALSE, !.Bools = FALSE, !.Floats = TRUE]
                     ELSE IF str = <<"t", "r", "u", "e">> \/ str = <<"f", "a", "l", "s", "e">>
                     THEN [has EXCEPT !.Bools = ~has.Floats]
                     ELSE [has EXCEPT !.Strings = TRUE]
         IN findTypeFlagsFloatFirst(Tail(arr), next)

\* The loop of findType: the flags after the tokens of arr.
RECURSIVE findTypeFlags(_, _)
findTypeFlags(arr, has) ==
    IF arr = <<>> THEN has
    ELSE LET str == Head(arr)
             next == IF str = <<>> \/ str = <<"N", "a", "N">> THEN has
                     ELSE IF AtoiOk(str) THEN [has EXCEPT !.Ints = TRUE]
                     ELSE IF ParseFloatOk(str) THEN [has EXCEPT !.Floats = TRUE]
                     ELSE IF str = <<"t", "r", "u", "e">> \/ str = <<"f", "a", "l", "s", "e">>
                     THEN [has EXCEPT !.Bools = TRUE]
                     ELSE [has EXCEPT !.Strings = TRUE]
         IN findTypeFlags(Tail(arr), next)

\* findType: the type and the error.
findType(arr) ==
    LET has == findTypeFlags(arr, [Floats |-> FALSE, Ints |-> FALSE,
                                   Bools |-> FALSE, Strings |-> FALSE])
    IN CASE has.Strings -> [type |-> "string", err |-> NoErr]
         [] has.Bools -> [type |-> "bool", err |-> NoErr]
         [] has.Floats -> [type |-> "float", err |-> NoErr]
         [] has.Ints -> [type |-> "int", err |-> NoErr]
         [] OTHER -> [type |-> "string", err |-> "couldn't detect type"]

\* LoadRecords, the type of one column: the tokens listed in nanValues
\* become NaN, and findType's answer replaces the default type unless it
\* is an error or detection is off.
LoadRecordsType(rawcol, defaultType, detectTypes) ==
    LET nanValues == {<<"N", "A">>, <<"N", "a", "N">>, <<"<", "n", "i", "l", ">">>}
        col == [j \in 1..Len(rawcol) |->
                   IF rawcol[j] \in nanValues THEN <<"N", "a", "N">> ELSE rawcol[j]]
        l == findType(col)
    IN IF detectTypes /\ l.err = NoErr THEN l.type ELSE defaultType

InitFindType ==
    /\ op = "init"
    /\ recv = None
    /\ arg \in [arr : SeqsUpTo(Tokens, MaxTokens),
                defaultType : {"string", "int"},
                detectTypes : BOOLEAN]
    /\ res = None

DoFindType ==
    /\ op = "init"
    /\ op' = "findType"
    /\ res' = findType(arg.arr)
    /\ UNCHANGED <<recv, arg>>

DoLoadRecordsType ==
    /\ op = "init"
    /\ op' = "LoadRecords"
    /\ res' = LoadRecordsType(arg.arr, arg.defaultType, arg.detectTypes)
    /\ UNCHANGED <<recv, arg>>

NextFindType ==
    \/ DoFindType
    \/ DoLoadRecordsType

SpecFindType == InitFindType /\ [][NextFindType]_vars

\* The tokens of arr that inference does not ignore.
Counted(arr) == {arr[i] : i \in 1..Len(arr)} \ {<<>>, <<"N", "a", "N">>}

IsBoolToken(t) == t \in {<<"t", "r", "u", "e">>, <<"f", "a", "l", "s", "e">>}

\* C18: the inferred type depends only on the set of tokens that are not
\* ignored: Text if one of them is neither an integer, nor a float, nor
\* true or false; else Boolean if one is true or false; else Float if one
\* is a float only; else Integer; and an error if all tokens are ignored.
\* [1,2,3] is Integer, [1,2.5] Float, [true,false] Boolean, [1,a] Text and
\* [NaN,""] an error.
C18_FindType ==
    op = "findType" =>
        LET c == Counted(arg.arr)
        IN /\ c = {} => res.err # NoErr
           /\ c # {} =>
                /\ res.err = NoErr
                /\ res.type =
                     IF \E t \in c : ~AtoiOk(t) /\ ~ParseFloatOk(t) /\ ~IsBoolToken(t)
                     THEN "string"
                     ELSE IF \E t \in c : IsBoolToken(t) THEN "bool"
                     ELSE IF \E t \in c : ~AtoiOk(t) THEN "float"
                     ELSE "int"
           /\ arg.arr = <<<<"1">>, <<"2">>, <<"3">>>> => res.type = "int"
           /\ arg.arr = <<<<"1">>, <<"2", ".", "5">>>> => res.type = "float"
           /\ arg.arr = <<<<"t", "r", "u", "e">>, <<"f", "a", "l", "s", "e">>>>
                 => res.type = "bool"
           /\ arg.arr = <<<<"1">>, <<"a">>>> => res.type = "string"
           /\ arg.arr = <<<<"N", "a", "N">>, <<>>>> => res.err # NoErr

\* C18 witness: a column that holds an ignored token, a float and true is
\* inferred Boolean.
C18_Witness ==
    /\ op = "findType"
    /\ arg.arr = <<<<>>, <<"2", ".", "5">>, <<"t", "r", "u", "e">>>>
    /\ res = [type |-> "bool", err |-> NoErr]

(***************************************************************************)
(* SpecElementEq: Eq and Neq on a pair of generic elements and on a pair   *)
(* of Boolean elements, each present or missing.                           *)
(***************************************************************************)
ElemMaxVal == 2

GenericElements == [value : 0..ElemMaxVal, nan : BOOLEAN]

BooleanElements == [value : BOOLEAN, nan : BOOLEAN]

InitElementEq ==
    /\ op = "init"
    /\ res = None
    /\ \/ recv \in GenericElements /\ arg \in [kind : {"generic"}, other : GenericElements]
       \/ recv \in BooleanElements /\ arg \in [kind : {"bool"}, other : BooleanElements]

DoElementValueEq ==
    /\ op = "init"
    /\ arg.kind = "generic"
    /\ op' = "Eq"
    /\ res' = ElementValueEq(recv, arg.other)
    /\ UNCHANGED <<recv, arg>>

DoElementValueNeq ==
    /\ op = "init"
    /\ arg.kind = "generic"
    /\ op' = "Neq"
    /\ res' = ElementValueNeq(recv, arg.other)
    /\ UNCHANGED <<recv, arg>>

DoBoolElementValueEq ==
    /\ op = "init"
    /\ arg.kind = "bool"
    /\ op' = "Eq"
    /\ res' = BoolElementValueEq(recv, arg.other)
    /\ UNCHANGED <<recv, arg>>

DoBoolElementValueNeq ==
    /\ op = "init"
    /\ arg.kind = "bool"
    /\ op' = "Neq"
    /\ res' = BoolElementValueNeq(recv, arg.other)
    /\ UNCHANGED <<recv, arg>>

NextElementEq ==
    \/ DoElementValueEq
    \/ DoElementValueNeq
    \/ DoBoolElementValueEq
    \/ DoBoolElementValueNeq

SpecElementEq == InitElementEq /\ [][NextElementEq]_vars

\* C19: for generic and Boolean elements alike, a.Eq(b) is true only if a
\* and b are both missing or both present, and a.Neq(b) is the negation of
\* a.Eq(b).
C19_ElementEq ==
    /\ op = "Eq" => (res => IsNA(recv) = IsNA(arg.other))
    /\ op = "Neq" =>
          res = ~(IF arg.kind = "bool" THEN BoolElementValueEq(recv, arg.other)
                  ELSE ElementValueEq(recv, arg.other))

(***************************************************************************)
(* SpecBind: RBind and Concat of two Tables of one or two columns named    *)
(* among a, b, c; the elements of the first are 0 or missing, those of     *)
(* the second 1 or missing.                                                *)
(***************************************************************************)
BindMaxRows == 2

BindNames ==
    {<<n>> : n \in {"a", "b", "c"}}
    \cup {p \in {"a", "b"} \X {"a", "b", "c"} : p[1] # p[2]}

\* The Tables of the given names whose elements are v or missing.
BindTables(v) ==
    UNION {UNION {{New([c \in 1..Len(names) |-> Series(names[c], cells[c], NoErr)]) :
                      cells \in [1..Len(names) -> [1..n -> {NewElement(v), NaNElement}]]} :
                  n \in 0..BindMaxRows} :
           names \in BindNames}

InitBind ==
    /\ op = "init"
    /\ recv \in BindTables(0)
    /\ arg \in [dfb : BindTables(1)]
    /\ res = None

DoRBindPair ==
    /\ op = "init"
    /\ op' = "RBind"
    /\ res' = RBind(recv, arg.dfb)
    /\ UNCHANGED <<recv, arg>>

DoConcatPair ==
    /\ op = "init"
    /\ op' = "Concat"
    /\ res' = Concat(recv, arg.dfb)
    /\ UNCHANGED <<recv, arg>>

NextBind ==
    \/ DoRBindPair
    \/ DoConcatPair

SpecBind == InitBind /\ [][NextBind]_vars

\* The column of df named n.
ColumnNamed(df, n) == df.columns[CHOOSE c \in 1..Len(df.columns) : df.columns[c].Name = n]

\* C21: A.RBind(B) carries an error whenever the set of A's names differs
\* from the set of B's names; when the sets are equal the result has A's
\* column order, A.NRow() + B.NRow() rows, and each column is A's column
\* followed by B's column of the same name.
C21_RBind ==
    op = "RBind" =>
        IF Range(Names(recv)) # Range(Names(arg.dfb))
        THEN res.Err # NoErr
        ELSE /\ res.Err = NoErr
             /\ Names(res) = Names(recv)
             /\ res.nrows = recv.nrows + arg.dfb.nrows
             /\ \A c \in 1..Len(recv.columns) :
                   res.columns[c].elements =
                       recv.columns[c].elements
                           \o ColumnNamed(arg.dfb, recv.columns[c].Name).elements

\* The names of B that A does not hold, in B's order.
NamesNotIn(B, A) == SelectSeq(Names(B), LAMBDA n : n \notin Range(Names(A)))

\* The elements of the column of df named n, or one missing element for
\* every row of df if df has no such column.
CellsOrMissing(df, n) ==
    IF n \in Range(Names(df)) THEN ColumnNamed(df, n).elements
    ELSE [r \in 1..df.nrows |-> [value |-> 0, nan |-> TRUE]]

\* C22: A.Concat(B) has A.NRow() + B.NRow() rows; its names are the names
\* of A followed by the names of B that A does not hold; a column of both
\* is A's column followed by B's; a column of one side holds that side's
\* elements in that side's rows and missing elements in the other rows.
C22_Concat ==
    op = "Concat" =>
        /\ res.Err = NoErr
        /\ res.nrows = recv.nrows + arg.dfb.nrows
        /\ Names(res) = Names(recv) \o NamesNotIn(arg.dfb, recv)
        /\ \A c \in 1..Len(res.columns) :
              /\ SeriesLen(res.columns[c]) = res.nrows
              /\ SubSeq(res.columns[c].elements, 1, recv.nrows)
                    = CellsOrMissing(recv, res.columns[c].Name)
              /\ SubSeq(res.columns[c].elements, recv.nrows + 1, res.nrows)
                    = CellsOrMissing(arg.dfb, res.columns[c].Name)

\* C22 witness: A holds a and b, B holds b and c, both have rows with
\* present elements; the result holds a, b, c, with c missing in A's rows
\* and a missing in B's.
C22_Witness ==
    /\ op = "Concat"
    /\ Names(recv) = <<"a", "b">>
    /\ Names(arg.dfb) = <<"b", "c">>
    /\ recv.nrows = BindMaxRows
    /\ arg.dfb.nrows = 1
    /\ Names(res) = <<"a", "b", "c">>
    /\ ~IsNA(Elem(res.columns[1], 0))
    /\ IsNA(Elem(res.columns[1], BindMaxRows))
    /\ ~IsNA(Elem(res.columns[3], BindMaxRows))
    /\ IsNA(Elem(res.columns[3], 0))

(***************************************************************************)
(* SpecFilter: FilterAggregation and Filter on Tables of one or two        *)
(* columns whose elements are 0, 1 or missing, with up to MaxFilters       *)
(* filters on the columns a and b.                                         *)
(***************************************************************************)
FilterMaxRows == 2

MaxFilters == 2

FilterElements == {NewElement(0), NewElement(1), NaNElement}

FilterTables ==
    UNION {{New(<<Series("a", e, NoErr)>>) : e \in [1..n -> FilterElements]}
           \cup {New(<<Series("a", e, NoErr), Series("b", f, NoErr)>>) :
                     e \in [1..n -> FilterElements], f \in [1..n -> FilterElements]} :
           n \in 0..FilterMaxRows}

FilterChoices ==
    {F(0, "", "==", 0), F(0, "", "<", 1), F(0, "a", ">=", 1),
     F(0, "b", "!=", 1), F(0, "b", "==", 1)}

InitFilter ==
    /\ op = "init"
    /\ recv \in FilterTables
    /\ arg \in [agg : {"or", "and"}, filters : SeqsUpTo(FilterChoices, MaxFilters)]
    /\ res = None

DoFilterAggregationRows ==
    /\ op = "init"
    /\ ~FilterAggregationPanics(recv, arg.agg, arg.filters)
    /\ op' = "FilterAggregation"
    /\ res' = FilterAggregation(recv, arg.agg, arg.filters)
    /\ UNCHANGED <<recv, arg>>

DoFilter ==
    /\ op = "init"
    /\ ~FilterAggregationPanics(recv, "or", arg.filters)
    /\ op' = "Filter"
    /\ res' = Filter(recv, arg.filters)
    /\ UNCHANGED <<recv, arg>>

NextFilter ==
    \/ DoFilterAggregationRows
    \/ DoFilter

SpecFilter == InitFilter /\ [][NextFilter]_vars

\* The filter's comparison on row r (0-based) of T.
FilterHolds(T, f, r) ==
    compareElements(Elem(T.columns[FilterColumn(T, f) + 1], r), f.Comparando, f.Comparator)

\* The rows (0-based) of T that the filters keep under agg, in T's order.
RowsKept(T, agg, filters) ==
    SelectSeq([r \in 1..T.nrows |-> r - 1],
              LAMBDA r : \/ filters = <<>>
                         \/ /\ agg = "or"
                            /\ \E i \in 1..Len(filters) : FilterHolds(T, filters[i], r)
                         \/ /\ agg = "and"
                            /\ \A i \in 1..Len(filters) : FilterHolds(T, filters[i], r))

\* Every filter names a column of T.
FiltersResolve(T, filters) ==
    \A i \in 1..Len(filters) :
        FilterColumn(T, filters[i]) >= 0 /\ FilterColumn(T, filters[i]) < T.ncols

\* The result holds the values of the rows kept, in T's order.
FilterKeepsValues ==
    (op \in {"FilterAggregation", "Filter"} /\ FiltersResolve(recv, arg.filters)) =>
        LET keep == RowsKept(recv, IF op = "Filter" THEN "or" ELSE arg.agg, arg.filters)
        IN /\ res.Err = NoErr
           /\ Names(res) = Names(recv)
           /\ res.nrows = Len(keep)
           /\ \A c \in 1..Len(recv.columns) :
                 /\ SeriesLen(res.columns[c]) = Len(keep)
                 /\ \A k \in 1..Len(keep) :
                       Elem(res.columns[c], k - 1).value
                           = Elem(recv.columns[c], keep[k]).value

\* C24: with Or the result holds exactly the rows of T for which one
\* filter at least is true, with And the rows for which every filter is
\* true, in T's row order; with no filter it holds all the rows of T; and
\* Filter is FilterAggregation with Or.
C24_FilterAggregation ==
    (op \in {"FilterAggregation", "Filter"} /\ FiltersResolve(recv, arg.filters)) =>
        LET keep == RowsKept(recv, IF op = "Filter" THEN "or" ELSE arg.agg, arg.filters)
        IN /\ res.Err = NoErr
           /\ Names(res) = Names(recv)
           /\ res.nrows = Len(keep)
           /\ \A c \in 1..Len(recv.columns) :
                 res.columns[c].elements
                     = [k \in 1..Len(keep) |-> Elem(recv.columns[c], keep[k])]
           /\ op = "Filter" => res = FilterAggregation(recv, "or", arg.filters)

(***************************************************************************)
(* SpecGroup: GroupBy on Tables of a Text column s, a Text column t and an *)
(* Integer column n, every element present.  Some Text values hold the     *)
(* character "_".                                                          *)
(***************************************************************************)
GroupMaxRows == 3

GroupRows == [s : {"a", "a_b"}, t : {"c", "b_c"}, n : 0..1]

GroupColumns == <<"s", "t", "n">>

\* The Table whose rows are the given ones.
GroupInput(rows) ==
    New([c \in 1..Len(GroupColumns) |->
            NewSeries(GroupColumns[c], [r \in 1..Len(rows) |-> rows[r][GroupColumns[c]]])])

GroupTables == {GroupInput(rows) : rows \in SeqsUpTo(GroupRows, GroupMaxRows)}

GroupKeyLists ==
    {<<>>, <<"s">>, <<"n">>, <<"s", "t">>, <<"t", "s">>, <<"s", "n">>, <<"z", "s">>}

\* GotaDataFrame.Maps: one map from column name to value per row.
Maps(df) ==
    [i \in 1..df.nrows |->
        [v \in Range(Names(df)) |-> Elem(df.columns[findInStringSlice(v, Names(df)) + 1], i - 1).value]]

\* fmt.Sprintf with %d for an int, the value of column n, and %s for a
\* string, the value of the columns s and t.
GroupFormat(c, val) == IF c = "n" THEN ToString(val) ELSE val

\* The key of a row: the formatted values of the columns, "_" between them.
RECURSIVE GroupKey(_, _)
GroupKey(s, colnames) ==
    IF colnames = <<>> THEN ""
    ELSE LET c == colnames[Len(colnames)]
             key == GroupKey(s, SubSeq(colnames, 1, Len(colnames) - 1))
         IN IF Len(colnames) = 1 THEN key \o GroupFormat(c, s[c])
            ELSE key \o "_" \o GroupFormat(c, s[c])

\* sort.Strings on the column names of the model.
SortedNames(names) ==
    SelectSeq(<<"n", "s", "t">>, LAMBDA n : n \in names)

\* LoadMaps with the column types given: the columns in the sorted order of
\* their names, one row per map.
LoadMaps(maps) ==
    IF Len(maps) = 0 THEN ErrDF("load maps: empty array")
    ELSE LET colnames == SortedNames(UNION {DOMAIN maps[k] : k \in 1..Len(maps)})
         IN Compose([i \in 1..Len(colnames) |->
                        NewSeries(colnames[i], [k \in 1..Len(maps) |-> maps[k][colnames[i]]])])

\* GotaDataFrame.GroupBy: nil for no column name, an error for a name that
\* the Table does not hold, else one Table per key.
GroupBy(df, colnames) ==
    LET absent == {i \in 1..Len(colnames) : findInStringSlice(colnames[i], Names(df)) = -1}
        maps == Maps(df)
        keys == {GroupKey(maps[i], colnames) : i \in 1..Len(maps)}
    IN IF Len(colnames) <= 0 THEN [nil |-> TRUE]
       ELSE IF absent # {}
       THEN [nil |-> FALSE, groups |-> <<>>, colnames |-> <<>>,
             Err |-> "GroupBy: can't find column name: " \o colnames[Min(absent)]]
       ELSE [nil |-> FALSE,
             groups |-> [k \in keys |->
                            LoadMaps(SelectSeq(maps, LAMBDA s : GroupKey(s, colnames) = k))],
             colnames |-> colnames,
             Err |-> NoErr]

InitGroup ==
    /\ op = "init"
    /\ recv \in GroupTables
    /\ arg \in GroupKeyLists
    /\ res = None

DoGroupBy ==
    /\ op = "init"
    /\ op' = "GroupBy"
    /\ res' = GroupBy(recv, arg)
    /\ UNCHANGED <<recv, arg>>

NextGroup == DoGroupBy

SpecGroup == InitGroup /\ [][NextGroup]_vars

\* The values of a row in the grouping columns.
KeyTuple(s, colnames) == [i \in 1..Len(colnames) |-> s[colnames[i]]]

\* GroupBy was called with column names that the Table holds.
Grouped ==
    /\ op = "GroupBy"
    /\ arg # <<>>
    /\ Range(arg) \subseteq Range(Names(recv))

\* C25: the groups partition the rows of T: the rows that agree on all the
\* grouping columns form one group, in their order in T, there is one
\* group per tuple of grouping values, and the sizes of the groups sum to
\* T.NRow().
C25_GroupByPartitions ==
    Grouped =>
        LET tuples == {KeyTuple(Maps(recv)[i], arg) : i \in 1..recv.nrows}
            keys == DOMAIN res.groups
        IN /\ res.Err = NoErr
           /\ Cardinality(keys) = Cardinality(tuples)
           /\ {Maps(res.groups[k]) : k \in keys}
                 = {SelectSeq(Maps(recv), LAMBDA s : KeyTuple(s, arg) = tu) : tu \in tuples}

\* C26: two rows whose tuples of grouping values differ never fall in the
\* same group.
C26_GroupKeyInjective ==
    Grouped =>
        \A k \in DOMAIN res.groups :
            \A i, j \in 1..res.groups[k].nrows :
                KeyTuple(Maps(res.groups[k])[i], arg) = KeyTuple(Maps(res.groups[k])[j], arg)

(***************************************************************************)
(* SpecSlice: Slice(j, k) on a Column of up to SliceMaxLen elements, each  *)
(* 0, 1 or missing, for j and k from -1 to SliceMaxLen + 1.                *)
(***************************************************************************)
SliceMaxLen == 3

SliceSeries ==
    {Series("a", e, NoErr) : e \in SeqsUpTo({NewElement(0), NewElement(1), NaNElement},
                                            SliceMaxLen)}

InitSlice ==
    /\ op = "init"
    /\ recv \in SliceSeries
    /\ arg \in [j : -1..(SliceMaxLen + 1), k : -1..(SliceMaxLen + 1)]
    /\ res = None

DoSlice ==
    /\ op = "init"
    /\ op' = "Slice"
    /\ res' = Slice(recv, arg.j, arg.k)
    /\ UNCHANGED <<recv, arg>>

NextSlice == DoSlice

SpecSlice == InitSlice /\ [][NextSlice]_vars

\* C27: for 0 <= j <= k <= Len, k = Len included, Slice(j, k) is Subset on
\* the positions j..k-1; otherwise (j > k, j < 0 or k > Len) it is a Column
\* that carries an error.
C27_Slice ==
    op = "Slice" =>
        IF 0 <= arg.j /\ arg.j <= arg.k /\ arg.k <= SeriesLen(recv)
        THEN res = SeriesSubset(recv, IntsIdx([i \in 1..(arg.k - arg.j) |-> arg.j + i - 1]))
        ELSE res.Err # NoErr

(***************************************************************************)
(* SpecColumnFrame: Subset and Concat on a Column; res holds the Column    *)
(* returned and the receiver as it is after the call.  A later Subset on   *)
(* the receiver follows.                                                   *)
(***************************************************************************)
FrameMaxLen == 2

FrameSeries ==
    {Series("a", e, NoErr) : e \in SeqsUpTo({NewElement(0), NewElement(1), NaNElement},
                                            FrameMaxLen)}

FrameArguments == FrameSeries \cup {Series("x", <<NewElement(1)>>, "x failed")}

FrameIndexes ==
    <<IntIdx(0), IntsIdx(<<1, 0>>), IntsIdx(<<>>), BoolsIdx(<<TRUE>>),
      BoolsIdx(<<TRUE, FALSE>>), [kind |-> "float", v |-> 0]>>

InitColumnFrame ==
    /\ op = "init"
    /\ recv \in FrameSeries
    /\ \/ \E k \in DOMAIN FrameIndexes : arg = [indexes |-> FrameIndexes[k]]
       \/ \E x \in FrameArguments : arg = [x |-> x]
    /\ res = None

DoSeriesSubset ==
    /\ op = "init"
    /\ "indexes" \in DOMAIN arg
    /\ ~SeriesSubsetPanics(recv, arg.indexes)
    /\ op' = "Subset"
    /\ res' = [ret |-> SeriesSubset(recv, arg.indexes),
               s |-> SeriesSubsetReceiver(recv, arg.indexes)]
    /\ UNCHANGED <<recv, arg>>

DoSeriesConcat ==
    /\ op = "init"
    /\ "x" \in DOMAIN arg
    /\ op' = "Concat"
    /\ res' = [ret |-> SeriesConcat(recv, arg.x),
               s |-> SeriesConcatReceiver(recv, arg.x)]
    /\ UNCHANGED <<recv, arg>>

\* A Subset by the empty position list on the receiver, after the call.
DoLaterSubset ==
    /\ op \in {"Subset", "Concat"}
    /\ op' = "later"
    /\ res' = [ret |-> SeriesSubset(res.s, IntsIdx(<<>>)),
               s |-> SeriesSubsetReceiver(res.s, IntsIdx(<<>>))]
    /\ UNCHANGED <<recv, arg>>

NextColumnFrame ==
    \/ DoSeriesSubset
    \/ DoSeriesConcat
    \/ DoLaterSubset

SpecColumnFrame == InitColumnFrame /\ [][NextColumnFrame]_vars

\* C28: after Subset or Concat on a Column, failed or not, the receiver has
\* the elements and the error state it had before, and a later Subset on
\* it returns what it would have returned before.
C28_ReceiverUnchanged ==
    /\ op \in {"Subset", "Concat"} => res.s = recv
    /\ op = "later" => res.ret = SeriesSubset(recv, IntsIdx(<<>>))

(***************************************************************************)
(* SpecAlias: element storage with sharing.  recv is the store: cells      *)
(* holds the value of every element ever made and arrays the element       *)
(* arrays, each a list of cells.  arg.objs names the live objects, each    *)
(* the list of the arrays of its columns (a Column is one array): the      *)
(* Table T, the Columns s and x, and the results R and R2.  res holds the  *)
(* object the last operation made or wrote to, and what every object read  *)
(* as before it.                                                           *)
(***************************************************************************)
AliasLen == 1

AliasMaxWrites == 2

AliasObjects == {"T", "s", "x", "R", "R2"}

\* A new array of new cells that hold vals.
Alloc(st, vals) ==
    [cells |-> st.cells \o vals,
     arrays |-> Append(st.arrays, [i \in 1..Len(vals) |-> Len(st.cells) + i])]

\* The values read from array a.
ValuesOf(st, a) == [i \in 1..Len(st.arrays[a]) |-> st.cells[st.arrays[a][i]]]

\* GotaSeries.Copy: a new array of new cells with the values of a.
StoreSeriesCopy(st, a) == Alloc(st, ValuesOf(st, a))

\* New: every Series given is copied; the copies are the arrays that follow
\* the ones of st.
RECURSIVE StoreNew(_, _)
StoreNew(st, se) ==
    IF se = <<>> THEN st ELSE StoreNew(StoreSeriesCopy(st, Head(se)), Tail(se))

\* The arrays StoreNew(st, se) has made.
NewColumns(st, se) == [i \in 1..Len(se) |-> Len(st.arrays) + i]

\* GotaSeries.Concat(x) on array s: the copy of s takes the cells of x
\* themselves (AppendElements appends other.Values()).
StoreSeriesConcat(st, s, x) ==
    LET y == StoreSeriesCopy(st, s)
    IN [y EXCEPT !.arrays[Len(y.arrays)] = @ \o st.arrays[x]]

\* GotaSeries.Set on array a: the cell at position i (0-based) takes v.
StoreSeriesSet(st, a, i, v) == [st EXCEPT !.cells[st.arrays[a][i + 1]] = v]

\* GotaDataFrame.Set and GotaSeries.Set on an object: every column is set
\* at row i.
RECURSIVE StoreSet(_, _, _, _)
StoreSet(st, columns, i, v) ==
    IF columns = <<>> THEN st
    ELSE StoreSet(StoreSeriesSet(st, Head(columns), i, v), Tail(columns), i, v)

\* GotaSeries.Append on array a: a new cell follows the cells of a.
StoreSeriesAppend(st, a, v) ==
    [cells |-> Append(st.cells, v),
     arrays |-> [st.arrays EXCEPT ![a] = Append(@, Len(st.cells) + 1)]]

\* What an object reads as: the values of each of its columns.
Read(st, columns) == [c \in 1..Len(columns) |-> ValuesOf(st, columns[c])]

ReadAll(st, objs) == [o \in AliasObjects |-> Read(st, objs[o])]

InitAlias ==
    /\ op = "init"
    /\ recv = [cells |-> [i \in 1..(3 * AliasLen) |-> 0],
               arrays |-> [a \in 1..3 |-> [i \in 1..AliasLen |-> (a - 1) * AliasLen + i]]]
    /\ arg = [objs |-> [o \in AliasObjects |->
                           CASE o = "T" -> <<1>> [] o = "s" -> <<2>> [] o = "x" -> <<3>>
                             [] OTHER -> <<>>],
              writes |-> 0]
    /\ res = [target |-> "init", before |-> ReadAll(recv, arg.objs)]

\* The result slot that is free.
FreeSlot == IF arg.objs["R"] = <<>> THEN "R" ELSE "R2"

\* An operation makes the object columns in the store st.
Makes(name, st, columns) ==
    /\ arg.objs["R2"] = <<>>
    /\ op' = name
    /\ recv' = st
    /\ arg' = [arg EXCEPT !.objs[FreeSlot] = columns]
    /\ res' = [target |-> FreeSlot, before |-> ReadAll(recv, arg.objs)]

\* An operation writes to the object target and leaves the store st.
Writes(name, target, st) ==
    /\ arg.writes < AliasMaxWrites
    /\ op' = name
    /\ recv' = st
    /\ arg' = [arg EXCEPT !.writes = @ + 1]
    /\ res' = [target |-> target, before |-> ReadAll(recv, arg.objs)]

\* T.Copy(): New on the columns of T.
DoAliasCopy ==
    Makes("Copy", StoreNew(recv, arg.objs["T"]), NewColumns(recv, arg.objs["T"]))

\* New(s).
DoAliasNew ==
    Makes("New", StoreNew(recv, arg.objs["s"]), NewColumns(recv, arg.objs["s"]))

\* T.Select(0): a copy of the column.
DoAliasSelect ==
    Makes("Select", StoreSeriesCopy(recv, arg.objs["T"][1]), <<Len(recv.arrays) + 1>>)

\* Mutate stores the Series it is given (columns = append(columns, s)): s
\* is passed by value, so the column is a new array of the cells of s
\* themselves.
StoreMutate(st, columns, s) ==
    LET y == StoreNew(st, columns)
    IN [y EXCEPT !.arrays = Append(@, st.arrays[s])]

\* T.Mutate(s), s of a name T does not hold: the columns of T.Copy(), and
\* s as it is given.
DoAliasMutate ==
    /\ Len(recv.arrays[arg.objs["s"][1]]) = Len(recv.arrays[arg.objs["T"][1]])
    /\ Makes("Mutate", StoreMutate(recv, arg.objs["T"], arg.objs["s"][1]),
             NewColumns(recv, arg.objs["T"] \o arg.objs["s"]))

\* T.CBind(New(x)): New on the columns of both.
DoAliasCBind ==
    /\ Len(recv.arrays[arg.objs["x"][1]]) = Len(recv.arrays[arg.objs["T"][1]])
    /\ Makes("CBind", StoreNew(recv, arg.objs["T"] \o arg.objs["x"]),
             NewColumns(recv, arg.objs["T"] \o arg.objs["x"]))

\* s.Concat(x).
DoAliasConcat ==
    Makes("Concat", StoreSeriesConcat(recv, arg.objs["s"][1], arg.objs["x"][1]),
          <<Len(recv.arrays) + 1>>)

\* Set of row 0 of an object to 1.
DoAliasSet ==
    \E o \in AliasObjects :
        /\ arg.objs[o] # <<>>
        /\ Writes("Set", o, StoreSet(recv, arg.objs[o], 0, 1))

\* Append of 1 to the Column s or x.
DoAliasAppend ==
    \E o \in {"s", "x"} :
        Writes("Append", o, StoreSeriesAppend(recv, arg.objs[o][1], 1))

NextAlias ==
    \/ DoAliasCopy
    \/ DoAliasNew
    \/ DoAliasSelect
    \/ DoAliasMutate
    \/ DoAliasCBind
    \/ DoAliasConcat
    \/ DoAliasSet
    \/ DoAliasAppend

SpecAlias == InitAlias /\ [][NextAlias]_vars

\* C29: no operation changes what an object other than the one it makes or
\* writes to reads as: a Set or Append on an operand leaves the results
\* made from it as they were, and a Set on a result leaves the operands and
\* the other result as they were.
C29_NoAliasing ==
    op # "init" =>
        \A o \in AliasObjects \ {res.target} :
            Read(recv, arg.objs[o]) = res.before[o]

(***************************************************************************)
(* SpecSetFailure: one Set on a Column or on a Table.  recv is the         *)
(* receiver before the call, arg the selector and the new values, res the  *)
(* value returned and the elements the receiver holds after the call.      *)
(***************************************************************************)
SetMaxLen == 2

SetMaxCols == 2

SetValues(v) == {[i \in 1..n |-> v] : n \in 0..SetMaxLen}

SetSeries(name, v) == {NewSeries(name, e) : e \in SetValues(v)}

SetTables(v) ==
    {New([c \in 1..n |-> NewSeries(<<"a", "b">>[c], e)]) :
        n \in 1..SetMaxCols, e \in SetValues(v)}

SetIndexes ==
    <<IntIdx(0), IntIdx(SetMaxLen), IntsIdx(<<0, 1>>), IntsIdx(<<0, SetMaxLen>>),
      IntsIdx(<<>>), BoolsIdx(<<TRUE>>), BoolsIdx(<<FALSE, TRUE>>),
      [kind |-> "float", v |-> 0]>>

InitSetFailure ==
    /\ op = "init"
    /\ \/ recv \in SetSeries("a", 0) /\ \E k \in DOMAIN SetIndexes, x \in SetSeries("x", 1) :
             arg = [indexes |-> SetIndexes[k], newvalues |-> x]
       \/ recv \in SetTables(0) /\ \E k \in DOMAIN SetIndexes, x \in SetTables(1) :
             arg = [indexes |-> SetIndexes[k], newvalues |-> x]
    /\ res = None

\* The elements of the columns of the receiver after GotaDataFrame.Set: the
\* columns are set one after the other in the storage of the receiver, up
\* to the first that fails.
SetColumnsAfter(df, indexes, newvalues) ==
    IF df.Err # NoErr \/ newvalues.Err # NoErr \/ df.ncols # newvalues.ncols
    THEN [i \in 1..Len(df.columns) |-> df.columns[i].elements]
    ELSE LET columns == [i \in 1..Len(df.columns) |->
                            SeriesSet(df.columns[i], indexes, newvalues.columns[i])]
             bad == {i \in 1..Len(columns) : columns[i].Err # NoErr}
         IN [i \in 1..Len(columns) |->
                IF bad = {} \/ i <= Min(bad) THEN columns[i].elements
                ELSE df.columns[i].elements]

DoColumnSet ==
    /\ op = "init"
    /\ "Name" \in DOMAIN recv
    /\ op' = "Column.Set"
    /\ res' = [ret |-> SeriesSet(recv, arg.indexes, arg.newvalues),
               before |-> <<recv.elements>>,
               after |-> <<SeriesSet(recv, arg.indexes, arg.newvalues).elements>>]
    /\ UNCHANGED <<recv, arg>>

DoTableSet ==
    /\ op = "init"
    /\ "columns" \in DOMAIN recv
    /\ op' = "Table.Set"
    /\ res' = [ret |-> Set(recv, arg.indexes, arg.newvalues),
               before |-> [i \in 1..Len(recv.columns) |-> recv.columns[i].elements],
               after |-> SetColumnsAfter(recv, arg.indexes, arg.newvalues)]
    /\ UNCHANGED <<recv, arg>>

NextSetFailure ==
    \/ DoColumnSet
    \/ DoTableSet

SpecSetFailure == InitSetFailure /\ [][NextSetFailure]_vars

\* C30: when Set on a Column or on a Table fails, the receiver holds the
\* elements it held before the call.
C30_SetAllOrNothing ==
    (op \in {"Column.Set", "Table.Set"} /\ res.ret.Err # NoErr) =>
        res.after = res.before

\* A failed Set whose selector is not a position list leaves the elements
\* of the receiver as they were.
SetFailsBeforeWriting ==
    (op \in {"Column.Set", "Table.Set"} /\ res.ret.Err # NoErr
        /\ arg.indexes.kind # "ints") =>
        res.after = res.before

(***************************************************************************)
(* Spec: sequences of Table operations. New builds the first Table; res  *)
(* is the current Table, every operation takes it as its receiver and     *)
(* leaves its result in res. A panic ends the run. Results larger than    *)
(* MaxCols x MaxRows, or with names fixed more than once, are not         *)
(* followed.                                                               *)
(***************************************************************************)
\* n present elements of value 0.
Zeros(n) == [i \in 1..n |-> NewElement(0)]

\* The columns the Tables are built from: present values, a missing
\* element, or a column that already carries an error.
TableSeries ==
    {Series(n, Zeros(l), NoErr) : n \in ColNames, l \in 0..MaxRows}
    \cup {Series("a", <<NaNElement>>, NoErr), Series("", Zeros(1), "series error")}

\* The Tables handed to the operations as arguments: one that carries an
\* error, one column of one row, one column of MaxRows rows, and two
\* columns of one row with a missing element.
ArgTables ==
    {New(<<>>),
     New(<<Series("a", Zeros(1), NoErr)>>),
     New(<<Series("b", Zeros(MaxRows), NoErr)>>),
     New(<<Series("b", Zeros(1), NoErr), Series("a", <<NaNElement>>, NoErr)>>)}

RowIndexes ==
    <<IntIdx(0), IntIdx(MaxRows), IntsIdx(<<1, 0>>),
      BoolsIdx(<<TRUE, FALSE>>), [kind |-> "float", v |-> 0]>>

ColumnIndexes ==
    <<IntIdx(MaxCols), IntsIdx(<<1, 0>>), IntsIdx(<<0, 0>>),
      BoolsIdx(<<FALSE, TRUE>>), StringIdx("a"), [kind |-> "float", v |-> 0]>>

FilterLists ==
    {<<>>, <<F(0, "a", "==", 0)>>,
     <<F(0, "", "<", 1), F(1, "", "!=", 0)>>,
     <<F(0, "b", "in", 0)>>}

OrderLists ==
    {<<>>, <<OrderKey("a", FALSE)>>, <<OrderKey("a", TRUE), OrderKey("b", FALSE)>>}

KeyLists == {<<>>, <<"a">>, <<"b", "a">>}

\* The names followed: the given ones, and the ones fixColnames makes of
\* them.
TableNames ==
    ColNames
    \cup {n \o "_" \o ToString(k) : n \in ColNames, k \in 0..(MaxCols - 1)}
    \cup {"X" \o ToString(k) : k \in 0..(MaxCols - 1)}

Fits(df) ==
    /\ df.ncols <= MaxCols
    /\ df.nrows <= MaxRows
    /\ Range(Names(df)) \subseteq TableNames

Init ==
    /\ op = "New"
    /\ recv = None
    /\ arg \in SeqsUpTo(TableSeries, MaxCols)
    /\ res = New(arg)

\* An operation on the current Table returns out.
Returns(name, a, out) ==
    LET df == out
    IN /\ op # "panic"
       /\ Fits(df)
       /\ op' = name
       /\ recv' = res
       /\ arg' = a
       /\ res' = df

\* An operation on the current Table panics.
Panics(name, a) ==
    /\ op # "panic"
    /\ op' = "panic"
    /\ recv' = res
    /\ arg' = [a EXCEPT !.op = name]
    /\ UNCHANGED res

DoCopy == Returns("Copy", [op |-> "Copy"], Copy(res))

DoSet ==
    \E k \in DOMAIN RowIndexes, newvalues \in ArgTables :
        Returns("Set", [op |-> "Set", indexes |-> RowIndexes[k], newvalues |-> newvalues],
                Set(res, RowIndexes[k], newvalues))

DoSubset ==
    \E k \in DOMAIN RowIndexes :
        LET indexes == RowIndexes[k]
            a == [op |-> "Subset", indexes |-> indexes]
        IN IF SubsetPanics(res, indexes) THEN Panics("Subset", a)
           ELSE Returns("Subset", a, Subset(res, indexes))

\* Select by one of the selectors of ColumnIndexes, or by the Table's own
\* list of names.
DoSelect ==
    \/ \E k \in DOMAIN ColumnIndexes :
          Returns("Select", [op |-> "Select", indexes |-> ColumnIndexes[k]],
                  Select(res, ColumnIndexes[k]))
    \/ Returns("Select", [op |-> "Select", indexes |-> StringsIdx(Names(res))],
               Select(res, StringsIdx(Names(res))))

DoDrop ==
    \E k \in DOMAIN ColumnIndexes :
        Returns("Drop", [op |-> "Drop", indexes |-> ColumnIndexes[k]],
                Drop(res, ColumnIndexes[k]))

DoRename ==
    \E newname \in ColNames, oldname \in ColNames \cup Range(Names(res)) :
        Returns("Rename", [op |-> "Rename", newname |-> newname, oldname |-> oldname],
                Rename(res, newname, oldname))

DoSetNames ==
    \E colnames \in {<<"a">>, <<"b", "a">>, <<"b", "b">>} :
        Returns("SetNames", [op |-> "SetNames", colnames |-> colnames,
                             err |-> SetNamesErr(res, colnames)],
                SetNames(res, colnames))

DoCBind ==
    \E dfb \in ArgTables :
        Returns("CBind", [op |-> "CBind", dfb |-> dfb], CBind(res, dfb))

DoRBind ==
    \E dfb \in ArgTables :
        Returns("RBind", [op |-> "RBind", dfb |-> dfb], RBind(res, dfb))

DoConcat ==
    \E dfb \in ArgTables :
        Returns("Concat", [op |-> "Concat", dfb |-> dfb], Concat(res, dfb))

DoMutate ==
    \E s \in TableSeries :
        Returns("Mutate", [op |-> "Mutate", s |-> s], Mutate(res, s))

DoFilterAggregation ==
    \E agg \in {"or", "and"}, filters \in FilterLists :
        LET a == [op |-> "FilterAggregation", agg |-> agg, filters |-> filters]
        IN IF FilterAggregationPanics(res, agg, filters)
           THEN Panics("FilterAggregation", a)
           ELSE Returns("FilterAggregation", a, FilterAggregation(res, agg, filters))

DoArrangeTable ==
    \E order \in OrderLists :
        Returns("Arrange", [op |-> "Arrange", order |-> order], Arrange(res, order))

DoCApply ==
    \E f \in UserFunctions :
        Returns("CApply", [op |-> "CApply", f |-> f],
                CApply(res, f))

DoRApply ==
    \E f \in UserFunctions :
        LET a == [op |-> "RApply", f |-> f]
        IN IF RApplyPanics(res) THEN Panics("RApply", a)
           ELSE Returns("RApply", a, RApply(res, f))

DoInnerJoinTable ==
    \E b \in ArgTables, keys \in KeyLists :
        Returns("InnerJoin", [op |-> "InnerJoin", b |-> b, keys |-> keys],
                InnerJoin(res, b, keys))

DoLeftJoinTable ==
    \E b \in ArgTables, keys \in KeyLists :
        Returns("LeftJoin", [op |-> "LeftJoin", b |-> b, keys |-> keys],
                LeftJoin(res, b, keys))

DoRightJoin ==
    \E b \in ArgTables, keys \in KeyLists :
        Returns("RightJoin", [op |-> "RightJoin", b |-> b, keys |-> keys],
                RightJoin(res, b, keys))

DoOuterJoin ==
    \E b \in ArgTables, keys \in KeyLists :
        Returns("OuterJoin", [op |-> "OuterJoin", b |-> b, keys |-> keys],
                OuterJoin(res, b, keys))

DoCrossJoin ==
    \E b \in ArgTables :
        Returns("CrossJoin", [op |-> "CrossJoin", b |-> b], CrossJoin(res, b))

Next ==
    \/ DoCopy
    \/ DoSet
    \/ DoSubset
    \/ DoSelect
    \/ DoDrop
    \/ DoRename
    \/ DoSetNames
    \/ DoCBind
    \/ DoRBind
    \/ DoConcat
    \/ DoMutate
    \/ DoFilterAggregation
    \/ DoArrangeTable
    \/ DoCApply
    \/ DoRApply
    \/ DoInnerJoinTable
    \/ DoLeftJoinTable
    \/ DoRightJoin
    \/ DoOuterJoin
    \/ DoCrossJoin

Spec == Init /\ [][Next]_vars

\* The operations that take a receiver Table and return a Table.
TableOps ==
    {"Copy", "Set", "Subset", "Select", "Drop", "Rename", "CBind", "RBind",
     "Concat", "Mutate", "FilterAggregation", "Arrange", "CApply", "RApply",
     "InnerJoin", "LeftJoin", "RightJoin", "OuterJoin", "CrossJoin"}

\* C1: every Table operation invoked on a receiver whose error is set
\* returns a Table that carries exactly the receiver's error.
C1_StickyError ==
    (op \in TableOps /\ recv.Err # NoErr) => res.Err = recv.Err

\* C2: every Table without error has all its columns of one length, nrows
\* equal to that length and ncols equal to the number of columns.
C2_EqualLength ==
    res.Err = NoErr =>
        /\ res.ncols = Len(res.columns)
        /\ \A i \in 1..Len(res.columns) : SeriesLen(res.columns[i]) = res.nrows

\* C2 witness: CBind has put a second column next to a first one of two
\* rows.
C2_Witness ==
    /\ op = "CBind"
    /\ res.Err = NoErr
    /\ res.ncols = 2
    /\ res.nrows = 2

\* C3: every Table without error has pairwise distinct column names.
C3_UniqueNames ==
    res.Err = NoErr =>
        \A i, j \in 1..Len(res.columns) :
            i # j => res.columns[i].Name # res.columns[j].Name

\* C16: selecting all the columns of a Table without error by the Table's
\* own list of names returns a Table with the same list of names, whatever
\* operations made the Table.
C16_SelectIdentity ==
    (/\ op = "Select"
     /\ recv.Err = NoErr
     /\ arg.indexes.kind = "strings"
     /\ arg.indexes.v = Names(recv))
        => Names(res) = Names(recv)

\* C20: no operation on a Table aborts: each one returns a Table, with or
\* without error.
C20_NoPanic == op # "panic"

\* A selector of columns that resolves on df, every position in range.
ValidSelector(df, indexes) ==
    LET p == parseSelectIndexes(df.ncols, indexes, Names(df))
    IN /\ p.err = NoErr
       /\ \A k \in 1..Len(p.idx) : p.idx[k] >= 0 /\ p.idx[k] < df.ncols

\* The positions (1-based) of df's columns that the selector does not
\* resolve to, in df's order.
Unselected(df, indexes) ==
    LET p == parseSelectIndexes(df.ncols, indexes, Names(df))
    IN SelectSeq([c \in 1..Len(df.columns) |-> c],
                 LAMBDA c : \A k \in 1..Len(p.idx) : p.idx[k] # c - 1)

\* C23: for a Table T without error and a valid selector, one that
\* resolves to all the columns included, T.Drop(sel) is a Table without
\* error whose columns are the columns of T that the selector does not
\* resolve to, in T's order.
C23_Drop ==
    (/\ op = "Drop"
     /\ recv.Err = NoErr
     /\ ValidSelector(recv, arg.indexes))
        => /\ res.Err = NoErr
           /\ res.columns = [k \in 1..Len(Unselected(recv, arg.indexes)) |->
                                recv.columns[Unselected(recv, arg.indexes)[k]]]

====
